---- MODULE Spec2Model ----
(***************************************************************************)
(* Job search backend (sahanpallage/TJH): the job-matching and relevance   *)
(* scoring engine of backend/utils/job_scanner.py.                         *)
(*                                                                         *)
(* Text is modelled as a sequence of one-character strings, so that        *)
(* str.lower(), str.split(), the `in` substring test and the regular       *)
(* expression scan of the salary parser are computed, not assumed.         *)
(* A value of a provider job record (a JSON object) is tagged with its     *)
(* Python type: a missing key, None, a str, a number or a bool.            *)
(***************************************************************************)
EXTENDS Integers, Sequences, FiniteSets, TLC

VARIABLES
    input_data,   \* JobScannerInput: the search criteria of the call
    job,          \* the provider job record handed to the scorer
    now,          \* the wall clock read by datetime.now(): [day, sec]
    pc,           \* "call", "return" of the scorer; "fetch", "jobs", "done", "raised" of scan_jobs
    result,       \* what _calculate_job_match_score left: matches, total_checks, raised, score
    num_pages,    \* scan_jobs: number of pages to fetch
    strict_filter,         \* scan_jobs: whether the relevance filter is applied
    min_match_threshold,   \* scan_jobs: the threshold, in percent
    page,         \* scan_jobs: the page of the current iteration
    jobs_data,    \* scan_jobs: the jobs of the current page not yet visited
    all_jobs,     \* scan_jobs: the outputs appended so far
    fetched,      \* history: every job the provider returned, in the order returned
    kept,         \* history: for each visited job, whether an output was appended
    failed_pages, \* history: the pages whose fetch was not answered with 200
    cache_enabled,   \* JobCache.enabled
    cache_rows,      \* the rows of the job_cache table
    utcnow,          \* the UTC wall clock, in minutes
    cache_call,      \* the last JobCache call: op, service, payload, ttl, whether the store answered
    cache_ret,       \* what the last JobCache.get returned: [hit, data]
    cache_ops,       \* the number of cache calls and clock advances so far
    last_set,        \* history: per cache key, the response and time of the latest set call
    store_failed,    \* history: a request to the store has failed
    endpoint,        \* the provider endpoint serving the request: "jsearch", "indeed", "linkedin"
    ep_pc,           \* "idle", "provider" while the provider is called, "done" once answered
    http_status,     \* the status of the HTTP response
    http_jobs,       \* the jobs of the response body
    provider_raised, \* history: the provider call of the indeed or linkedin endpoint raised
    ENVIRONMENT,     \* settings.ENVIRONMENT
    raised_exc,      \* the exception handed to handle_exception
    http_exc,        \* the HTTPException handle_exception returned: [status_code, detail]
    batch,           \* the JobScannerOutput list handed to calculate_accuracy
    accuracy,        \* what calculate_accuracy returned
    datePosted,      \* JobSearchRequest.datePosted as the client sent it
    params_date_posted, \* params["date_posted"] of the provider query
    enabled,         \* RateLimitMiddleware.enabled
    per_minute,      \* RateLimitMiddleware.per_minute
    per_hour,        \* RateLimitMiddleware.per_hour
    _request_counts, \* RateLimitMiddleware._request_counts: per IP the list of (ts, count)
    current_time,    \* time.time(), in whole seconds
    check_ret,       \* the last _check_rate_limit call: [ip, allowed]
    admitted,        \* history: per IP the timestamps of the calls that were allowed
    forwarded,       \* history: the requests handed to call_next: [ip, path, ts]
    dispatch_ret,    \* the last dispatch: [ip, path, status_code]
    rate_ops,        \* the number of calls, requests and clock advances so far
    API_KEY,         \* settings.API_KEY
    auth_log,        \* history: per request to APIKeyAuthMiddleware its path, header, status
                     \* and whether call_next was called
    log_record_factory,  \* logging's record factory: the request IDs of the wrappers
                         \* around the original factory, outermost first
    old_factory,     \* per request the factory RequestIDMiddleware.dispatch saved
    req_pc,          \* per request "new", "awaiting" (in call_next) or "done"
    poll_pc,         \* search_indeed_jobs: "polling", "finished" (out of the loop), "returned",
                     \* or the exception raised: "TimeoutError", "RuntimeError", "raised"
    apify_status,    \* the status of the run in the last answered status request
    poll_time,       \* time.time(), in seconds
    start_time,      \* start_time of the polling loop
    ts_num_pages,    \* search_jobs_theirstack_multiple_pages: num_pages
    ts_page,         \* the page of the next iteration of its loop
    ts_pc,           \* "loop" while it iterates, "returned" after the loop
    ts_all_jobs,     \* all_jobs: the jobs collected, as page numbers
    ts_requests,     \* history: per call of search_jobs_theirstack its page and outcome
    indeed_jobs_data,  \* search_jobs_indeed_endpoint: jobs_data, the jobs the scraper returned
    indeed_response    \* its response: [status_code, ids, total]

scan_vars == <<num_pages, strict_filter, min_match_threshold, page, jobs_data,
               all_jobs, fetched, kept, failed_pages>>

cache_vars == <<cache_enabled, cache_rows, utcnow, cache_call, cache_ret, cache_ops,
                last_set, store_failed>>

\* the state outside the scorer and scan_jobs
endpoint_vars == <<endpoint, ep_pc, http_status, http_jobs, provider_raised>>

handler_vars == <<ENVIRONMENT, raised_exc, http_exc>>

accuracy_vars == <<batch, accuracy>>

service_vars == <<cache_vars, endpoint_vars, handler_vars, accuracy_vars>>

date_vars == <<datePosted, params_date_posted>>

\* the state of the request validation, the middlewares and the provider clients
rate_vars == <<enabled, per_minute, per_hour, _request_counts, current_time, check_ret,
               admitted, forwarded, dispatch_ret, rate_ops>>

auth_vars == <<API_KEY, auth_log>>

request_id_vars == <<log_record_factory, old_factory, req_pc>>

poll_vars == <<poll_pc, apify_status, poll_time, start_time>>

\* the state of the provider clients
theirstack_vars == <<ts_num_pages, ts_page, ts_pc, ts_all_jobs, ts_requests>>

indeed_vars == <<indeed_jobs_data, indeed_response>>

client_vars == <<poll_vars, theirstack_vars, indeed_vars>>

ext_vars == <<date_vars, rate_vars, auth_vars, request_id_vars, client_vars>>

\* the state of the scorer, the scan, the cache, the endpoints and the evaluator
core_vars == <<input_data, job, now, pc, result, scan_vars, service_vars>>

vars == <<core_vars, ext_vars>>

(***************************************************************************)
(* Python values of a job record                                           *)
(***************************************************************************)
Absent == [t |-> "absent"]
None == [t |-> "none"]
Str(s) == [t |-> "str", s |-> s]
Num(n) == [t |-> "num", n |-> n]
Bool(b) == [t |-> "bool", b |-> b]

\* dict.get(key, default): the default only when the key is missing
Get(v, default) == IF v.t = "absent" THEN default ELSE v

\* Python truthiness of a value
Truthy(v) ==
    CASE v.t = "str" -> Len(v.s) > 0
      [] v.t = "num" -> v.n # 0
      [] v.t = "bool" -> v.b
      [] OTHER -> FALSE

\* (value or ''): the text compared by the location and country checks
OrEmpty(v) == IF Truthy(v) THEN v ELSE Str(<<>>)

(***************************************************************************)
(* Text                                                                    *)
(***************************************************************************)
UpperToLower ==
    [A |-> "a", B |-> "b", C |-> "c", D |-> "d", E |-> "e", F |-> "f",
     G |-> "g", H |-> "h", I |-> "i", J |-> "j", K |-> "k", L |-> "l",
     M |-> "m", N |-> "n", O |-> "o", P |-> "p", Q |-> "q", R |-> "r",
     S |-> "s", T |-> "t", U |-> "u", V |-> "v", W |-> "w", X |-> "x",
     Y |-> "y", Z |-> "z"]

LowerChar(c) == IF c \in DOMAIN UpperToLower THEN UpperToLower[c] ELSE c

\* str.lower()
Lower(s) == [i \in 1..Len(s) |-> LowerChar(s[i])]

\* sub in s
Contains(sub, s) ==
    \E i \in 0..(Len(s) - Len(sub)) : SubSeq(s, i + 1, i + Len(sub)) = sub

IsSpace(c) == c = " "

\* the words of s, given the word `word` read so far
RECURSIVE SplitFrom(_, _)
SplitFrom(s, word) ==
    IF s = <<>> THEN (IF word = <<>> THEN {} ELSE { word })
    ELSE IF IsSpace(Head(s))
    THEN (IF word = <<>> THEN {} ELSE { word }) \cup SplitFrom(Tail(s), <<>>)
    ELSE SplitFrom(Tail(s), Append(word, Head(s)))

\* set(s.split()): the maximal runs of non-space characters
Words(s) == SplitFrom(s, <<>>)

Digits == <<"0", "1", "2", "3", "4", "5", "6", "7", "8", "9">>

IsDigit(c) == \E d \in 1..10 : Digits[d] = c

DigitVal(c) == (CHOOSE d \in 1..10 : Digits[d] = c) - 1

\* the number written by a run of digits (int()/float() of a digit string)
RECURSIVE NumVal(_)
NumVal(s) ==
    IF s = <<>> THEN 0
    ELSE 10 * NumVal(SubSeq(s, 1, Len(s) - 1)) + DigitVal(s[Len(s)])

\* s.replace(old, new) for a one-character old
RECURSIVE Replace(_, _, _)
Replace(s, old, new) ==
    IF s = <<>> THEN <<>>
    ELSE (IF Head(s) = old THEN new ELSE <<Head(s)>>) \o Replace(Tail(s), old, new)

(***************************************************************************)
(* Field normalizers                                                       *)
(***************************************************************************)
IsNumChar(c) == IsDigit(c) \/ c = ","

\* re.findall(r'[\d,]+', s): the maximal runs of digits and commas, in order
RECURSIVE FindAllNumbers(_)
FindAllNumbers(s) ==
    IF s = <<>> THEN <<>>
    ELSE IF ~IsNumChar(Head(s)) THEN FindAllNumbers(Tail(s))
    ELSE LET n == CHOOSE k \in 1..Len(s) :
                    /\ \A i \in 1..k : IsNumChar(s[i])
                    /\ (k = Len(s) \/ ~IsNumChar(s[k + 1]))
         IN <<SubSeq(s, 1, n)>> \o FindAllNumbers(SubSeq(s, n + 1, Len(s)))

NoRange == [ok |-> FALSE, lo |-> 0, hi |-> 0]

\* float(text.replace(',', '')) of one regex match; it raises ValueError on ''
FloatOf(text) == NumVal(Replace(text, ",", <<>>))

FloatRaises(text) == Replace(text, ",", <<>>) = <<>>

\* _parse_salary_range: None, or the pair (first number, second number)
_parse_salary_range(salary_str) ==
    IF salary_str = <<>> \/ salary_str = <<"N", "/", "A">> THEN NoRange
    ELSE LET numbers == FindAllNumbers(Replace(salary_str, ",", <<>>))
         IN IF Len(numbers) >= 2
            THEN IF FloatRaises(numbers[1]) \/ FloatRaises(numbers[2]) THEN NoRange
                 ELSE [ok |-> TRUE, lo |-> FloatOf(numbers[1]), hi |-> FloatOf(numbers[2])]
            ELSE IF Len(numbers) = 1
            THEN IF FloatRaises(numbers[1]) THEN NoRange
                 ELSE [ok |-> TRUE, lo |-> FloatOf(numbers[1]), hi |-> FloatOf(numbers[1])]
            ELSE NoRange

\* days from 1970-01-01 to the civil date y-m-d (proleptic Gregorian calendar)
DaysFromCivil(y, m, d) ==
    LET yy == IF m <= 2 THEN y - 1 ELSE y
        era == yy \div 400
        yoe == yy - era * 400
        mp == IF m > 2 THEN m - 3 ELSE m + 9
        doy == (153 * mp + 2) \div 5 + d - 1
        doe == yoe * 365 + yoe \div 4 - yoe \div 100 + doy
    IN era * 146097 + doe - 719468

AllDigits(s, i, j) == \A k \in i..j : IsDigit(s[k])

NotIso == [ok |-> FALSE, aware |-> FALSE, day |-> 0, sec |-> 0]

\* datetime.fromisoformat on the layouts YYYY-MM-DD, YYYY-MM-DD?HH:MM:SS and
\* YYYY-MM-DD?HH:MM:SS+HH:MM (? any separator); any other text is a ValueError.
\* aware: the text carries a UTC offset, so the datetime has a tzinfo.
fromisoformat(s) ==
    LET dateOk == /\ Len(s) >= 10
                  /\ AllDigits(s, 1, 4) /\ s[5] = "-"
                  /\ AllDigits(s, 6, 7) /\ s[8] = "-"
                  /\ AllDigits(s, 9, 10)
                  /\ NumVal(SubSeq(s, 6, 7)) \in 1..12
                  /\ NumVal(SubSeq(s, 9, 10)) \in 1..31
        timeOk == /\ Len(s) >= 19
                  /\ AllDigits(s, 12, 13) /\ s[14] = ":"
                  /\ AllDigits(s, 15, 16) /\ s[17] = ":"
                  /\ AllDigits(s, 18, 19)
                  /\ NumVal(SubSeq(s, 12, 13)) < 24
                  /\ NumVal(SubSeq(s, 15, 16)) < 60
                  /\ NumVal(SubSeq(s, 18, 19)) < 60
        zoneOk == /\ Len(s) = 25
                  /\ s[20] \in {"+", "-"}
                  /\ AllDigits(s, 21, 22) /\ s[23] = ":"
                  /\ AllDigits(s, 24, 25)
        day == DaysFromCivil(NumVal(SubSeq(s, 1, 4)), NumVal(SubSeq(s, 6, 7)),
                             NumVal(SubSeq(s, 9, 10)))
        sec == NumVal(SubSeq(s, 12, 13)) * 3600 + NumVal(SubSeq(s, 15, 16)) * 60
                 + NumVal(SubSeq(s, 18, 19))
    IN IF ~dateOk THEN NotIso
       ELSE IF Len(s) = 10 THEN [ok |-> TRUE, aware |-> FALSE, day |-> day, sec |-> 0]
       ELSE IF ~timeOk THEN NotIso
       ELSE IF Len(s) = 19 THEN [ok |-> TRUE, aware |-> FALSE, day |-> day, sec |-> sec]
       ELSE IF zoneOk THEN [ok |-> TRUE, aware |-> TRUE, day |-> day, sec |-> sec]
       ELSE NotIso

\* (a - b).days for two naive datetimes: timedelta normalises to 0 <= seconds < 86400
DeltaDays(a, b) == (a.day - b.day) - (IF a.sec < b.sec THEN 1 ELSE 0)

(***************************************************************************)
(* Match scorer: _calculate_job_match_score, one operator per field check. *)
(* st is the function's local state: the list `matches`, the counter       *)
(* `total_checks`, and whether an exception has left the function.         *)
(***************************************************************************)
InitScore == [matches |-> <<>>, total_checks |-> 0, raised |-> FALSE]

\* total_checks += 1
Tick(st) == [st EXCEPT !.total_checks = @ + 1]

\* matches.append(v)
Push(st, v) == [st EXCEPT !.matches = Append(@, v)]

\* an uncaught exception
Throw(st) == [st EXCEPT !.raised = TRUE]

Hybrid == <<"h", "y", "b", "r", "i", "d">>

\* a keyword counted when it occurs anywhere in the job title, not as a token
TitleMatchSubstring(input_title, job_title) ==
    LET key_words == { w \in Words(input_title) : Len(w) > 3 }
    IN IF key_words # {}
       THEN 2 * Cardinality({ w \in key_words : Contains(w, job_title) })
               >= Cardinality(key_words)
       ELSE Contains(input_title, job_title) \/ Contains(job_title, input_title)

\* title_match of lines 47-54, on the lower-cased texts
TitleMatch(input_title, job_title) ==
    LET input_words == Words(input_title)
        job_words == Words(job_title)
        key_words == { w \in input_words : Len(w) > 3 }
    IN IF key_words # {}
       THEN 2 * Cardinality({ w \in key_words : w \in job_words }) >= Cardinality(key_words)
       ELSE Contains(input_title, job_title) \/ Contains(job_title, input_title)

\* Check job title (required)
CheckTitle(c, j, st) ==
    LET st1 == Tick(st)
        job_title == Get(j.job_title, Str(<<>>))
    IN IF job_title.t # "str" THEN Throw(st1)   \* None.lower(): AttributeError
       ELSE Push(st1, Bool(TitleMatch(Lower(c.job_title), Lower(job_title.s))))

\* Check job type
CheckJobType(c, j, st) ==
    IF c.job_type = "" THEN st
    ELSE LET st1 == Tick(st)
             is_remote == Get(j.job_is_remote, Bool(FALSE))
             job_desc == Get(j.job_description, Str(<<>>))
         IN CASE c.job_type = "Remote" -> Push(st1, is_remote)
              [] c.job_type = "On site" -> Push(st1, Bool(~Truthy(is_remote)))
              [] c.job_type = "Hybrid" ->
                    IF job_desc.t # "str" THEN Throw(st1)
                    ELSE Push(st1, Bool(\/ Contains(Hybrid, Lower(job_desc.s))
                                        \/ Contains(Hybrid,
                                                    Lower(Get(j.job_title, Str(<<>>)).s))))
              [] OTHER -> Push(st1, Bool(TRUE))

\* the boolean appended by lines 83-94
LocationMatch(input_city, input_state, job_city, job_state) ==
    LET city_match == IF input_city # <<>> THEN input_city = job_city ELSE TRUE
        state_match == IF input_state # <<>> THEN input_state = job_state ELSE TRUE
    IN IF input_city # <<>> /\ input_state # <<>>
       THEN city_match /\ state_match
       ELSE (city_match /\ state_match) \/ city_match \/ state_match

\* Check location (skip for remote jobs)
CheckLocation(c, j, st) ==
    IF c.location_city # <<>> \/ c.location_state # <<>>
    THEN IF c.job_type # "Remote"
         THEN LET st1 == Tick(st)
                  job_city == OrEmpty(j.job_city)
                  job_state == OrEmpty(j.job_state)
              IN IF job_city.t # "str" \/ job_state.t # "str" THEN Throw(st1)
                 ELSE Push(st1, Bool(LocationMatch(Lower(c.location_city),
                                                   Lower(c.location_state),
                                                   Lower(job_city.s), Lower(job_state.s))))
         ELSE Push(Tick(st), Bool(TRUE))   \* For remote jobs, location match is always True
    ELSE st

country_map ==
    [us |-> << <<"u", "s">>, <<"u", "s", "a">>,
               <<"u", "n", "i", "t", "e", "d", " ", "s", "t", "a", "t", "e", "s">> >>,
     uk |-> << <<"u", "k">>, <<"g", "b">>,
               <<"u", "n", "i", "t", "e", "d", " ", "k", "i", "n", "g", "d", "o", "m">> >>,
     ca |-> << <<"c", "a">>, <<"c", "a", "n", "a", "d", "a">> >>]

\* the key of country_map the lower-cased criterion is, or "" when it is none
CountryKey(input_country) ==
    CASE input_country = <<"u", "s">> -> "us"
      [] input_country = <<"u", "k">> -> "uk"
      [] input_country = <<"c", "a">> -> "ca"
      [] OTHER -> ""

\* the country compared for equality, without aliases or containment
CountryMatchExact(input_country, job_country) == input_country = job_country

\* country_match of lines 110-113, on the lower-cased texts
CountryMatch(input_country, job_country) ==
    IF CountryKey(input_country) # ""
    THEN \E i \in DOMAIN country_map[CountryKey(input_country)] :
            Contains(country_map[CountryKey(input_country)][i], job_country)
    ELSE Contains(input_country, job_country) \/ Contains(job_country, input_country)

\* the country check without its `if input_data.country:` guard
CheckCountryUnguarded(c, j, st) ==
    LET st1 == Tick(st)
        job_country == OrEmpty(j.job_country)
    IN IF job_country.t # "str" THEN Throw(st1)
       ELSE Push(st1, Bool(CountryMatch(Lower(c.country), Lower(job_country.s))))

\* Check country
CheckCountry(c, j, st) ==
    IF c.country = <<>> THEN st
    ELSE LET st1 == Tick(st)
             job_country == OrEmpty(j.job_country)
         IN IF job_country.t # "str" THEN Throw(st1)
            ELSE Push(st1, Bool(CountryMatch(Lower(c.country), Lower(job_country.s))))

\* the salary check with the append missing from its "can't verify" branch
CheckSalaryNoAppend(c, j, st) ==
    IF c.salary_range = <<>> THEN st
    ELSE LET st1 == Tick(st)
             input_range == _parse_salary_range(c.salary_range)
             salary_min == Get(j.job_min_salary, None)
             salary_max == Get(j.job_max_salary, None)
         IN IF input_range.ok /\ Truthy(salary_min) /\ Truthy(salary_max)
            THEN IF salary_max.t # "num" THEN Throw(st1)
                 ELSE IF salary_max.n < input_range.lo THEN Push(st1, Bool(FALSE))
                 ELSE IF salary_min.t # "num" THEN Throw(st1)
                 ELSE Push(st1, Bool(~(salary_min.n > input_range.hi)))
            ELSE st1

\* Check salary range
CheckSalary(c, j, st) ==
    IF c.salary_range = <<>> THEN st
    ELSE LET st1 == Tick(st)
             input_range == _parse_salary_range(c.salary_range)
             salary_min == Get(j.job_min_salary, None)
             salary_max == Get(j.job_max_salary, None)
         IN IF input_range.ok /\ Truthy(salary_min) /\ Truthy(salary_max)
            THEN \* not (salary_max < input_min or salary_min > input_max);
                 \* a str compared with a float is a TypeError
                 IF salary_max.t # "num" THEN Throw(st1)
                 ELSE IF salary_max.n < input_range.lo THEN Push(st1, Bool(FALSE))
                 ELSE IF salary_min.t # "num" THEN Throw(st1)
                 ELSE Push(st1, Bool(~(salary_min.n > input_range.hi)))
            ELSE Push(st1, Bool(TRUE))   \* Can't verify, assume match

\* the bucket test of lines 140-148 on the age in whole days
DateBucketMatch(date_lower, days) ==
    IF Contains(<<"d", "a", "y">>, date_lower)
         \/ Contains(<<"t", "o", "d", "a", "y">>, date_lower) THEN days <= 1
    ELSE IF Contains(<<"w", "e", "e", "k">>, date_lower) THEN days <= 7
    ELSE IF Contains(<<"m", "o", "n", "t", "h">>, date_lower) THEN days <= 30
    ELSE TRUE

\* the date check with a text that does not parse scored as a mismatch
DateMatchStrict(date_posted, date_posted_str, clock) ==
    IF Contains(<<"T">>, date_posted_str)
    THEN LET job_dt == fromisoformat(Replace(date_posted_str, "Z",
                                             <<"+", "0", "0", ":", "0", "0">>))
         IN IF ~job_dt.ok THEN FALSE
            ELSE IF job_dt.aware THEN TRUE
            ELSE DateBucketMatch(Lower(date_posted), DeltaDays(clock, job_dt))
    ELSE TRUE

\* date_match of lines 134-154 for a truthy str date_posted_str
DateMatch(date_posted, date_posted_str, clock) ==
    IF Contains(<<"T">>, date_posted_str)
    THEN LET job_dt == fromisoformat(Replace(date_posted_str, "Z",
                                             <<"+", "0", "0", ":", "0", "0">>))
         IN IF ~job_dt.ok THEN TRUE          \* ValueError, caught by the bare except
            ELSE IF job_dt.aware THEN TRUE   \* aware now minus naive job_dt: TypeError, caught
            ELSE DateBucketMatch(Lower(date_posted), DeltaDays(clock, job_dt))
    ELSE TRUE

\* Check date posted
CheckDate(c, j, st, clock) ==
    IF c.date_posted = <<>> THEN st
    ELSE LET st1 == Tick(st)
             date_posted_str == Get(j.job_posted_at_datetime_utc, Str(<<>>))
         IN IF Truthy(date_posted_str)
            THEN IF date_posted_str.t # "str" THEN Push(st1, Bool(TRUE))  \* TypeError, caught
                 ELSE Push(st1, Bool(DateMatch(c.date_posted, date_posted_str.s, clock)))
            ELSE Push(st1, Bool(TRUE))   \* Can't verify, assume match

NoScore == [num |-> 0, den |-> 0]

\* sum(matches): the number of True entries
RECURSIVE SumMatches(_)
SumMatches(matches) ==
    IF matches = <<>> THEN 0
    ELSE (IF Truthy(Head(matches)) THEN 1 ELSE 0) + SumMatches(Tail(matches))

\* lines 157-161; the score is the exact rational num/den
Finish(st) ==
    IF st.raised THEN st @@ [score |-> NoScore]
    ELSE IF st.total_checks = 0 THEN st @@ [score |-> [num |-> 100, den |-> 1]]
    ELSE IF \E i \in DOMAIN st.matches : st.matches[i].t # "bool"
    THEN Throw(st) @@ [score |-> NoScore]   \* sum() over None or str: TypeError
    ELSE st @@ [score |-> [num |-> 100 * SumMatches(st.matches), den |-> st.total_checks]]

\* a later check runs only when no earlier one raised
Then(st, next) == IF st.raised THEN st ELSE next

_calculate_job_match_score(c, j, clock) ==
    LET s1 == CheckTitle(c, j, InitScore)
        s2 == Then(s1, CheckJobType(c, j, s1))
        s3 == Then(s2, CheckLocation(c, j, s2))
        s4 == Then(s3, CheckCountry(c, j, s3))
        s5 == Then(s4, CheckSalary(c, j, s4))
        s6 == Then(s5, CheckDate(c, j, s5, clock))
    IN Finish(s6)

\* the comparison inverted: score <= threshold
ScoreAtMost(score, threshold) == score.num <= threshold * score.den

\* score >= threshold, for a threshold in percent
ScoreAtLeast(score, threshold) == score.num >= threshold * score.den

\* the filter with a strict comparison: score > threshold
CheckStrictlyAbove(c, j, threshold, clock) ==
    LET score == _calculate_job_match_score(c, j, clock).score
    IN score.num > threshold * score.den

\* _check_job_matches_criteria (the statements after its return are dead code)
_check_job_matches_criteria(c, j, threshold, clock) ==
    ScoreAtLeast(_calculate_job_match_score(c, j, clock).score, threshold)

(***************************************************************************)
(* Inputs.  The criteria and the job record are a base record with at most *)
(* MaxCriteriaEdits, MaxJobEdits fields replaced by another sample value.  *)
(***************************************************************************)
MaxCriteriaEdits == 2
MaxJobEdits == 1

\* all fields given, each matched by BaseJob
BaseCriteria ==
    [job_title |-> <<"D", "a", "t", "a", " ", "E", "n", "g", "i", "n", "e", "e", "r">>,
     industry |-> <<"T", "e", "c", "h">>,
     salary_range |-> <<"$", "5", "0", ",", "0", "0", "0", " ", "-", " ",
                        "$", "8", "0", ",", "0", "0", "0">>,
     job_type |-> "On site",
     location_city |-> <<"A", "u", "s", "t", "i", "n">>,
     location_state |-> <<"T", "X">>,
     country |-> <<"U", "S">>,
     date_posted |-> <<"w", "e", "e", "k">>]

CriteriaAlt ==
    [job_title |-> { <<"P", "M">> },
     industry |-> { <<>> },
     salary_range |-> { <<>> },
     job_type |-> { "Remote", "Hybrid" },
     location_city |-> { <<>> },
     location_state |-> { <<>> },
     country |-> { <<>>, <<"F", "R">> },
     date_posted |-> { <<>>, <<"T", "o", "d", "a", "y">>, <<"m", "o", "n", "t", "h">>,
                       <<"2", "4", "h">> }]

\* posted one day before Clock
BaseJob ==
    [job_title |-> Str(<<"S", "e", "n", "i", "o", "r", " ", "D", "a", "t", "a", " ",
                         "E", "n", "g", "i", "n", "e", "e", "r">>),
     job_is_remote |-> Bool(FALSE),
     job_description |-> Str(<<"E", "T", "L", " ", "p", "i", "p", "e", "l", "i", "n", "e", "s">>),
     job_city |-> Str(<<"A", "U", "S", "T", "I", "N">>),
     job_state |-> Str(<<"t", "x">>),
     job_country |-> Str(<<"U", "S">>),
     job_min_salary |-> Num(60000),
     job_max_salary |-> Num(70000),
     job_posted_at_datetime_utc |->
         Str(<<"2", "0", "2", "4", "-", "0", "3", "-", "0", "9", "T",
               "1", "2", ":", "0", "0", ":", "0", "0">>),
     job_apply_link |-> Str(<<"h", "t", "t", "p", ":", "/", "/", "j", "/", "1">>),
     job_salary_currency |-> Absent,
     job_employment_type |-> Str(<<"F", "U", "L", "L", "T", "I", "M", "E">>)]

\* well-typed provider values: a text or flag may be missing, an optional one null
JobAlt ==
    [job_title |-> { Str(<<"N", "u", "r", "s", "e">>), Absent },
     job_is_remote |-> { Bool(TRUE), Absent },
     job_description |-> { Str(<<"H", "y", "b", "r", "i", "d", " ", "r", "o", "l", "e">>) },
     job_city |-> { Str(<<"D", "a", "l", "l", "a", "s">>), None, Absent },
     job_state |-> { Str(<<"C", "A">>), None, Str(<<>>) },
     job_country |-> { Str(<<"F", "r", "a", "n", "c", "e">>), None, Str(<<>>) },
     job_min_salary |-> { Num(90000), None, Absent },
     job_max_salary |-> { Num(40000), None, Num(0) },
     job_posted_at_datetime_utc |->
        { Absent, Str(<<>>),
          \* 2 days and one second, 10 days, 40 days before Clock
          Str(<<"2", "0", "2", "4", "-", "0", "3", "-", "0", "8", "T",
                "1", "1", ":", "5", "9", ":", "5", "9">>),
          Str(<<"2", "0", "2", "4", "-", "0", "2", "-", "2", "9", "T",
                "1", "2", ":", "0", "0", ":", "0", "0">>),
          Str(<<"2", "0", "2", "4", "-", "0", "1", "-", "3", "0", "T",
                "1", "2", ":", "0", "0", ":", "0", "0">>),
          \* 40 days before Clock, with a trailing Z and with a UTC offset
          Str(<<"2", "0", "2", "4", "-", "0", "1", "-", "3", "0", "T",
                "1", "2", ":", "0", "0", ":", "0", "0", "Z">>),
          Str(<<"2", "0", "2", "4", "-", "0", "1", "-", "3", "0", "T",
                "1", "2", ":", "0", "0", ":", "0", "0", "+", "0", "0", ":", "0", "0">>),
          \* a date without a time component
          Str(<<"2", "0", "2", "4", "-", "0", "1", "-", "3", "0">>),
          \* texts that are no date at all, with and without a letter T
          Str(<<"F", "u", "l", "l", " ", "T", "i", "m", "e">>),
          Str(<<"s", "o", "o", "n">>) }]

\* the records that differ from base in at most k fields, each taken from alt
RECURSIVE Variants(_, _, _)
Variants(base, alt, k) ==
    IF k = 0 THEN { base }
    ELSE LET prev == Variants(base, alt, k - 1)
         IN prev \cup UNION { { [r EXCEPT ![f] = v] : v \in alt[f] } :
                                <<r, f>> \in prev \X (DOMAIN alt) }

Criteria == Variants(BaseCriteria, CriteriaAlt, MaxCriteriaEdits)

Jobs == Variants(BaseJob, JobAlt, MaxJobEdits)

\* provider values of the wrong type: null where a text or a flag is expected,
\* a text where a flag or a number is expected
IllTyped ==
    [job_title |-> { None },
     job_is_remote |-> { None, Str(<<"y", "e", "s">>) },
     job_description |-> { None },
     job_city |-> { },
     job_state |-> { },
     job_country |-> { },
     job_min_salary |-> { Str(<<"n", "/", "a">>) },
     job_max_salary |-> { Str(<<"n", "/", "a">>) },
     job_posted_at_datetime_utc |-> { None }]

RawJobAlt == [f \in DOMAIN JobAlt |-> JobAlt[f] \cup IllTyped[f]]

RawJobs == Variants(BaseJob, RawJobAlt, MaxJobEdits)

\* datetime.now() of the run: 2024-03-10 12:00:00
Clock == [day |-> DaysFromCivil(2024, 3, 10), sec |-> 12 * 3600]

NoResult == InitScore @@ [score |-> NoScore]

\* scan_jobs is not running
ScanIdle ==
    /\ num_pages = 0
    /\ strict_filter = FALSE
    /\ min_match_threshold = 0
    /\ page = 0
    /\ jobs_data = <<>>
    /\ all_jobs = <<>>
    /\ fetched = <<>>
    /\ kept = <<>>
    /\ failed_pages = {}

\* no cache call yet
NoCall == [op |-> "", service |-> "", payload |-> <<>>, ttl |-> 0, ok |-> FALSE]

Miss == [hit |-> FALSE, data |-> None]

\* the cache is not in use
CacheIdle ==
    /\ cache_enabled = FALSE
    /\ cache_rows = {}
    /\ utcnow = 0
    /\ cache_call = NoCall
    /\ cache_ret = Miss
    /\ cache_ops = 0
    /\ last_set = {}
    /\ store_failed = FALSE

\* no request is being served
EndpointIdle ==
    /\ endpoint = ""
    /\ ep_pc = "idle"
    /\ http_status = 0
    /\ http_jobs = <<>>
    /\ provider_raised = FALSE

\* no exception is being handled
HandlerIdle ==
    /\ ENVIRONMENT = "development"
    /\ raised_exc = [http |-> FALSE, status_code |-> 0, msg |-> <<>>]
    /\ http_exc = [status_code |-> 0, detail |-> <<>>]

\* no batch is being evaluated
AccuracyIdle ==
    /\ batch = <<>>
    /\ accuracy = [total_jobs |-> 0, field_accuracies |-> <<>>,
                   overall_accuracy |-> [num |-> 0, den |-> 1], detailed_results |-> <<>>]

ServicesIdle == CacheIdle /\ EndpointIdle /\ HandlerIdle /\ AccuracyIdle

\* the scorer, the scan and the services are not in use
CoreIdle ==
    /\ input_data = BaseCriteria
    /\ job = None
    /\ now = Clock
    /\ pc = "idle"
    /\ result = NoResult
    /\ ScanIdle
    /\ ServicesIdle

\* no request is being validated
DateIdle ==
    /\ datePosted = <<>>
    /\ params_date_posted = <<>>

\* the clients of the rate limiter
IPs == {"10.0.0.1", "10.0.0.2"}

NoCheck == [ip |-> "", allowed |-> TRUE]

NoDispatch == [ip |-> "", path |-> <<>>, status_code |-> 0]

\* the rate limiter has seen no request
RateIdle ==
    /\ enabled = TRUE
    /\ per_minute = 0
    /\ per_hour = 0
    /\ _request_counts = [ip \in IPs |-> <<>>]
    /\ current_time = 0
    /\ check_ret = NoCheck
    /\ admitted = [ip \in IPs |-> <<>>]
    /\ forwarded = <<>>
    /\ dispatch_ret = NoDispatch
    /\ rate_ops = 0

\* no request has reached the authentication middleware
AuthIdle ==
    /\ API_KEY = <<>>
    /\ auth_log = <<>>

\* no request has reached the request ID middleware
RequestIdIdle ==
    /\ log_record_factory = <<>>
    /\ old_factory = <<>>
    /\ req_pc = <<>>

\* no Apify run is being polled
PollIdle ==
    /\ poll_pc = "idle"
    /\ apify_status = ""
    /\ poll_time = 0
    /\ start_time = 0

\* the middlewares have seen no request
MiddlewareIdle == RateIdle /\ AuthIdle /\ RequestIdIdle

\* no TheirStack search is running
TheirstackIdle ==
    /\ ts_num_pages = 0
    /\ ts_page = 0
    /\ ts_pc = "idle"
    /\ ts_all_jobs = <<>>
    /\ ts_requests = <<>>

NoIndeedResponse == [status_code |-> 0, ids |-> <<>>, total |-> 0]

\* the Indeed endpoint builds no response
IndeedIdle ==
    /\ indeed_jobs_data = <<>>
    /\ indeed_response = NoIndeedResponse

\* no provider client is running
ClientsIdle == PollIdle /\ TheirstackIdle /\ IndeedIdle

ExtIdle == DateIdle /\ MiddlewareIdle /\ ClientsIdle

(***************************************************************************)
(* The scorer applied to one criteria and one job record                   *)
(***************************************************************************)
Init ==
    /\ ExtIdle
    /\ input_data \in Criteria
    /\ job \in Jobs
    /\ now = Clock
    /\ pc = "call"
    /\ result = NoResult
    /\ ScanIdle
    /\ ServicesIdle

Calculate ==
    /\ pc = "call"
    /\ result' = _calculate_job_match_score(input_data, job, now)
    /\ pc' = "return"
    /\ UNCHANGED <<ext_vars, input_data, job, now, scan_vars, service_vars>>

Next == Calculate

Spec == Init /\ [][Next]_vars

\* the same call on job records that may hold values of the wrong type
InitRaw ==
    /\ ExtIdle
    /\ input_data \in Criteria
    /\ job \in RawJobs
    /\ now = Clock
    /\ pc = "call"
    /\ result = NoResult
    /\ ScanIdle
    /\ ServicesIdle

SpecRaw == InitRaw /\ [][Next]_vars

\* the scorer on the remote software-engineer search and records close to it
ScenarioCriteria ==
    [job_title |-> <<"S", "o", "f", "t", "w", "a", "r", "e", " ",
                     "E", "n", "g", "i", "n", "e", "e", "r">>,
     industry |-> <<>>,
     salary_range |-> <<"$", "8", "0", ",", "0", "0", "0", " ", "-", " ",
                        "$", "1", "0", "0", ",", "0", "0", "0">>,
     job_type |-> "Remote",
     location_city |-> <<>>,
     location_state |-> <<>>,
     country |-> <<"U", "S">>,
     date_posted |-> <<>>]

ScenarioJob ==
    [job_title |-> Str(<<"S", "e", "n", "i", "o", "r", " ", "S", "o", "f", "t", "w", "a", "r", "e",
                         " ", "E", "n", "g", "i", "n", "e", "e", "r">>),
     job_is_remote |-> Bool(TRUE),
     job_description |-> Absent,
     job_city |-> Absent,
     job_state |-> Absent,
     job_country |-> Str(<<"U", "n", "i", "t", "e", "d", " ", "S", "t", "a", "t", "e", "s">>),
     job_min_salary |-> Num(150000),
     job_max_salary |-> Num(160000),
     job_posted_at_datetime_utc |-> Absent,
     job_apply_link |-> Absent,
     job_salary_currency |-> Absent,
     job_employment_type |-> Absent]

InitScenario ==
    /\ ExtIdle
    /\ input_data \in Variants(ScenarioCriteria, CriteriaAlt, MaxCriteriaEdits)
    /\ job \in Variants(ScenarioJob, JobAlt, MaxJobEdits)
    /\ now = Clock
    /\ pc = "call"
    /\ result = NoResult
    /\ ScanIdle
    /\ ServicesIdle

SpecScenario == InitScenario /\ [][Next]_vars

\* the scorer on sample titles: several keywords, none, repeated blanks, capitals
CriteriaTitles ==
    { <<"D", "a", "t", "a", " ", "E", "n", "g", "i", "n", "e", "e", "r">>,
      <<"P", "M">>,
      <<"S", "e", "n", "i", "o", "r", " ", "D", "a", "t", "a", " ", "P", "l", "a", "t", "f", "o", "r", "m", " ", "E", "n", "g", "i", "n", "e", "e", "r">>,
      <<"L", "e", "a", "d", " ", "D", "a", "t", "a", " ", "S", "c", "i", "e", "n", "t", "i", "s", "t">>,
      <<"d", "a", "t", "a", " ", " ", "e", "n", "g", "i", "n", "e", "e", "r">>,
      <<"J", "a", "v", "a", " ", "D", "e", "v">>,
      <<"d", "e", "v">>,
      <<"Q", "A", " ", "L", "e", "a", "d">> }

JobTitles ==
    { <<"S", "e", "n", "i", "o", "r", " ", "D", "a", "t", "a", " ", "E", "n", "g", "i", "n", "e", "e", "r">>,
      <<"N", "u", "r", "s", "e">>,
      <<>>,
      <<"D", "a", "t", "a", " ", "E", "n", "g", "i", "n", "e", "e", "r", "i", "n", "g", " ", "L", "e", "a", "d">>,
      <<"D", "a", "t", "a", "b", "a", "s", "e", " ", "E", "n", "g", "i", "n", "e", "e", "r", "s">>,
      <<"S", "e", "n", "i", "o", "r", " ", "P", "M">>,
      <<"p", "m">>,
      <<"W", "e", "b", " ", "D", "e", "v", "e", "l", "o", "p", "e", "r">>,
      <<"D", "A", "T", "A", " ", "E", "N", "G", "I", "N", "E", "E", "R">>,
      <<"L", "e", "a", "d">> }

InitTitle ==
    /\ ExtIdle
    /\ input_data \in { [BaseCriteria EXCEPT !.job_title = t] : t \in CriteriaTitles }
    /\ job \in { [BaseJob EXCEPT !.job_title = Str(t)] : t \in JobTitles }
                \cup { [BaseJob EXCEPT !.job_title = Absent] }
    /\ now = Clock
    /\ pc = "call"
    /\ result = NoResult
    /\ ScanIdle
    /\ ServicesIdle

SpecTitle == InitTitle /\ [][Next]_vars

(***************************************************************************)
(* Relevance filter: scan_jobs.  The provider answers each page request    *)
(* with a list of jobs, with a status other than 200, or not at all.       *)
(***************************************************************************)
MaxPages == 2

\* jobs the provider returns over the whole scan
MaxFetched == 3

Thresholds == { 50, 80, 100, 120 }

\* jobs that score 6/6, 5/6 and 4/6 against BaseCriteria
ScanPool ==
    { BaseJob,
      [BaseJob EXCEPT !.job_title = Str(<<"N", "u", "r", "s", "e">>),
                      !.job_apply_link = Str(<<"h", "t", "t", "p", ":", "/", "/", "j", "/", "2">>)],
      [BaseJob EXCEPT !.job_title = Str(<<"N", "u", "r", "s", "e">>),
                      !.job_country = Str(<<"F", "r", "a", "n", "c", "e">>),
                      !.job_apply_link = Str(<<"h", "t", "t", "p", ":", "/", "/", "j", "/", "3">>)] }

\* response_data.get("data", []) of one page
PageData == UNION { [1..n -> ScanPool] : n \in 0..MaxFetched }

\* threshold = 100.0 if min_match_threshold >= 100.0 else min_match_threshold
EffectiveThreshold(threshold) == IF threshold >= 100 THEN 100 ELSE threshold

UpperChar(c) ==
    IF \E u \in DOMAIN UpperToLower : UpperToLower[u] = c
    THEN CHOOSE u \in DOMAIN UpperToLower : UpperToLower[u] = c
    ELSE c

\* str.upper()
Upper(s) == [i \in 1..Len(s) |-> UpperChar(s[i])]

RECURSIVE DigitsOf(_)
DigitsOf(n) ==
    IF n < 10 THEN <<Digits[n + 1]>>
    ELSE DigitsOf(n \div 10) \o <<Digits[(n % 10) + 1]>>

RECURSIVE GroupThousands(_)
GroupThousands(ds) ==
    IF Len(ds) <= 3 THEN ds
    ELSE GroupThousands(SubSeq(ds, 1, Len(ds) - 3)) \o <<",">>
            \o SubSeq(ds, Len(ds) - 2, Len(ds))

\* f"{n:,}" of a non-negative int
FormatThousands(n) == GroupThousands(DigitsOf(n))

\* f"{v}" of a str or None
FormatText(v) == IF v.t = "str" THEN v.s ELSE <<"N", "o", "n", "e">>

\* salary_range of lines 383-391
OutputSalaryRange(c, j) ==
    LET salary_min == Get(j.job_min_salary, None)
        salary_max == Get(j.job_max_salary, None)
        salary_currency == Get(j.job_salary_currency, Str(<<"U", "S", "D">>))
    IN IF Truthy(salary_min) /\ Truthy(salary_max)
       THEN FormatText(salary_currency) \o <<" ">> \o FormatThousands(salary_min.n)
               \o <<" ", "-", " ">> \o FormatThousands(salary_max.n)
       ELSE IF Truthy(salary_min)
       THEN FormatText(salary_currency) \o <<" ">> \o FormatThousands(salary_min.n) \o <<"+">>
       ELSE c.salary_range

\* job_type of lines 394-400
OutputJobType(c, j) ==
    LET employment_type == Get(j.job_employment_type, Str(<<>>))
        is_remote == Truthy(Get(j.job_is_remote, Bool(FALSE)))
    IN IF Truthy(employment_type)
       THEN IF Contains(<<"F", "U", "L", "L", "T", "I", "M", "E">>, Upper(employment_type.s))
            THEN (IF ~is_remote THEN "On site" ELSE "Remote")
            ELSE IF is_remote THEN "Remote" ELSE c.job_type
       ELSE c.job_type

\* the JobScannerOutput of lines 373-422
JobOutput(c, j) ==
    LET date_posted_str == Get(j.job_posted_at_datetime_utc, Str(<<>>))
    IN [job_title |-> Get(j.job_title, Str(c.job_title)),
        industry |-> Str(c.industry),
        salary_range |-> Str(OutputSalaryRange(c, j)),
        job_type |-> OutputJobType(c, j),
        location_city |-> Get(j.job_city, Str(c.location_city)),
        location_state |-> Get(j.job_state, Str(c.location_state)),
        country |-> Get(j.job_country, Str(c.country)),
        date_posted |-> IF Truthy(date_posted_str) THEN date_posted_str
                        ELSE Str(c.date_posted),
        apply_link |-> Get(j.job_apply_link, Str(<<>>))]

\* building the output raises: a number formatted from a str, `in` or .upper()
\* on a value that is no str, or a required str field that is None
OutputRaises(j) ==
    \/ Get(j.job_title, Str(<<>>)).t # "str"
    \/ Get(j.job_apply_link, Str(<<>>)).t # "str"
    \/ (Truthy(Get(j.job_min_salary, None)) /\ Get(j.job_min_salary, None).t # "num")
    \/ (Truthy(Get(j.job_min_salary, None)) /\ Truthy(Get(j.job_max_salary, None))
          /\ Get(j.job_max_salary, None).t # "num")
    \/ (Truthy(Get(j.job_employment_type, Str(<<>>)))
          /\ Get(j.job_employment_type, Str(<<>>)).t # "str")

InitScan ==
    /\ ExtIdle
    /\ input_data = BaseCriteria
    /\ job = None
    /\ now = Clock
    /\ pc = "fetch"
    /\ result = NoResult
    /\ num_pages \in 1..MaxPages
    /\ strict_filter \in BOOLEAN
    /\ min_match_threshold \in Thresholds
    /\ page = 1
    /\ jobs_data = <<>>
    /\ all_jobs = <<>>
    /\ fetched = <<>>
    /\ kept = <<>>
    /\ failed_pages = {}
    /\ ServicesIdle

\* the next iteration of `for page in range(1, num_pages + 1)`, or the return
NextPage ==
    /\ page' = page + 1
    /\ pc' = IF page + 1 > num_pages THEN "done" ELSE "fetch"

\* requests.get answers 200 with the page's jobs
FetchPage ==
    /\ pc = "fetch"
    /\ \E data \in PageData :
         /\ Len(fetched) + Len(data) <= MaxFetched
         /\ fetched' = fetched \o data
         /\ jobs_data' = data
         /\ IF data = <<>> THEN NextPage ELSE pc' = "jobs" /\ page' = page
    /\ UNCHANGED <<ext_vars, input_data, job, now, result, num_pages, strict_filter,
                   min_match_threshold, all_jobs, kept, failed_pages, service_vars>>

\* requests.get answers another status or raises RequestException: logged, page skipped
FetchFails ==
    /\ pc = "fetch"
    /\ failed_pages' = failed_pages \cup {page}
    /\ NextPage
    /\ UNCHANGED <<ext_vars, input_data, job, now, result, num_pages, strict_filter,
                   min_match_threshold, jobs_data, all_jobs, fetched, kept, service_vars>>

\* one iteration of `for job in jobs_data`
ProcessJob ==
    /\ pc = "jobs"
    /\ jobs_data # <<>>
    /\ LET j == Head(jobs_data)
           scored == _calculate_job_match_score(input_data, j, now)
           keep == \/ ~strict_filter
                   \/ _check_job_matches_criteria(input_data, j,
                          EffectiveThreshold(min_match_threshold), now)
       IN /\ job' = j
          /\ result' = IF strict_filter THEN scored ELSE result
          /\ IF (strict_filter /\ scored.raised) \/ (keep /\ OutputRaises(j))
             THEN /\ pc' = "raised"
                  /\ UNCHANGED <<page, jobs_data, all_jobs, kept>>
             ELSE /\ all_jobs' = IF keep THEN Append(all_jobs, JobOutput(input_data, j))
                                 ELSE all_jobs
                  /\ kept' = Append(kept, keep)
                  /\ jobs_data' = Tail(jobs_data)
                  /\ IF Tail(jobs_data) = <<>> THEN NextPage
                     ELSE pc' = "jobs" /\ page' = page
    /\ UNCHANGED <<ext_vars, input_data, now, num_pages, strict_filter, min_match_threshold, fetched,
                   failed_pages, service_vars>>

NextScan == FetchPage \/ FetchFails \/ ProcessJob

SpecScan == InitScan /\ [][NextScan]_vars

(***************************************************************************)
(* JobCache: responses kept in the job_cache table                         *)
(***************************************************************************)
\* the default time to live, in minutes
CACHE_TTL_MINUTES == 60 * 24 * 7

\* the characters of the payload keys, in code point order
CodePoints ==
    <<"0", "1", "2", "3", "4", "5", "6", "7", "8", "9",
      "A", "B", "C", "D", "E", "F", "G", "H", "I", "J", "K", "L", "M",
      "N", "O", "P", "Q", "R", "S", "T", "U", "V", "W", "X", "Y", "Z", "_",
      "a", "b", "c", "d", "e", "f", "g", "h", "i", "j", "k", "l", "m",
      "n", "o", "p", "q", "r", "s", "t", "u", "v", "w", "x", "y", "z">>

Ord(c) == CHOOSE i \in 1..Len(CodePoints) : CodePoints[i] = c

\* a < b for two strings
RECURSIVE StrLess(_, _)
StrLess(a, b) ==
    IF b = <<>> THEN FALSE
    ELSE IF a = <<>> THEN TRUE
    ELSE IF a[1] # b[1] THEN Ord(a[1]) < Ord(b[1])
    ELSE StrLess(Tail(a), Tail(b))

\* the items of a dict, a sequence of <<key, value>> in insertion order, put in
\* the order of their keys
RECURSIVE SortKeys(_)
SortKeys(payload) ==
    IF payload = <<>> THEN <<>>
    ELSE LET first == CHOOSE i \in 1..Len(payload) :
                          \A k \in 1..Len(payload) :
                              k = i \/ StrLess(payload[i][1], payload[k][1])
         IN <<payload[first]>>
                \o SortKeys([k \in 1..(Len(payload) - 1) |->
                                IF k < first THEN payload[k] ELSE payload[k + 1]])

\* json.dumps(payload, separators=(",", ":")): the items in insertion order
JsonDumpsUnsorted(payload) == payload

\* json.dumps(payload, sort_keys=True, separators=(",", ":"))
JsonDumps(payload) == SortKeys(payload)

\* the text that is hashed; the hash itself is taken to be collision free
_compute_key(service, payload) == <<service, ":", JsonDumps(payload)>>

\* created_at < cutoff
ExpiredNever(created_at, cutoff) == FALSE

Expired(created_at, cutoff) == created_at < cutoff

\* {}
EmptyDict == [t |-> "dict"]

\* the rows the query selects: service and cache_key equal
Selected(rows, service, key) ==
    {r \in rows : r.service = service /\ r.cache_key = key}

\* order=created_at.desc, limit=1
Newest(rows) == CHOOSE r \in rows : \A q \in rows : q.created_at <= r.created_at

\* what get returns once the store has answered with rows
GetResult(rows, service, key, cutoff) ==
    LET found == Selected(rows, service, key)
    IN IF found = {} THEN Miss
       ELSE IF Newest(found).response \in {None, EmptyDict} THEN Miss
       ELSE IF Expired(Newest(found).created_at, cutoff) THEN Miss
       ELSE [hit |-> TRUE, data |-> Newest(found).response]

\* POST with on_conflict=service,cache_key and resolution=merge-duplicates
Upsert(rows, row) ==
    {r \in rows : ~(r.service = row.service /\ r.cache_key = row.cache_key)} \cup {row}

MaxCacheOps == 3

Services == {"jsearch", "indeed"}

\* JobSearchRequest.model_dump(), cut down to three fields, each item a pair of
\* key and value; the second body holds the items of the first in another order
Payloads ==
    {<<<<(<<"j", "o", "b", "T", "i", "t", "l", "e">>), Str(<<"d", "e", "v">>)>>,
       <<(<<"j", "o", "b", "T", "y", "p", "e">>), Str(<<"R", "e", "m", "o", "t", "e">>)>>,
       <<(<<"c", "o", "u", "n", "t", "r", "y">>), Str(<<"u", "s">>)>>>>,
     <<<<(<<"c", "o", "u", "n", "t", "r", "y">>), Str(<<"u", "s">>)>>,
       <<(<<"j", "o", "b", "T", "i", "t", "l", "e">>), Str(<<"d", "e", "v">>)>>,
       <<(<<"j", "o", "b", "T", "y", "p", "e">>), Str(<<"R", "e", "m", "o", "t", "e">>)>>>>,
     <<<<(<<"j", "o", "b", "T", "i", "t", "l", "e">>), Str(<<"q", "a">>)>>,
       <<(<<"j", "o", "b", "T", "y", "p", "e">>), Str(<<"R", "e", "m", "o", "t", "e">>)>>,
       <<(<<"c", "o", "u", "n", "t", "r", "y">>), Str(<<"u", "s">>)>>>>}

\* JobResponse, cut down to its title and link
JobResponse(title, applyLink) == [title |-> Str(title), applyLink |-> Str(applyLink)]

\* the lists of jobs a response carries
JobLists ==
    {<<>>,
     <<JobResponse(<<"D", "e", "v">>, <<"j", "1">>)>>,
     <<JobResponse(<<"D", "e", "v">>, <<"j", "1">>), JobResponse(<<"Q", "A">>, <<"j", "2">>)>>}

\* JobSearchResponse(jobs=job_responses, total=len(job_responses)).model_dump()
JobSearchResponse(job_responses) == [jobs |-> job_responses, total |-> Len(job_responses)]

Responses == {JobSearchResponse(job_responses) : job_responses \in JobLists}

\* the items of a dict, whatever their order
Items(payload) == {payload[i] : i \in 1..Len(payload)}

InitCache ==
    /\ ExtIdle
    /\ input_data = BaseCriteria
    /\ job = BaseJob
    /\ now = Clock
    /\ pc = "idle"
    /\ result = NoResult
    /\ ScanIdle
    /\ cache_enabled \in BOOLEAN
    /\ cache_rows = {}
    /\ utcnow = 0
    /\ cache_call = NoCall
    /\ cache_ret = Miss
    /\ cache_ops = 0
    /\ last_set = {}
    /\ store_failed = FALSE
    /\ EndpointIdle
    /\ HandlerIdle
    /\ AccuracyIdle

\* JobCache.get(service, payload, ttl_minutes); answered says whether the store
\* answered the request
CacheGet ==
    \E service \in Services, payload \in Payloads, ttl_minutes \in {1, CACHE_TTL_MINUTES}, answered \in BOOLEAN :
        /\ cache_ops < MaxCacheOps
        /\ cache_enabled \/ ~answered
        /\ cache_ops' = cache_ops + 1
        /\ cache_call' = [op |-> "get", service |-> service, payload |-> payload,
                          ttl |-> ttl_minutes, ok |-> answered]
        /\ cache_ret' = IF ~cache_enabled \/ ~answered THEN Miss
                        ELSE GetResult(cache_rows, service, _compute_key(service, payload),
                                       utcnow - ttl_minutes)
        /\ store_failed' = (store_failed \/ (cache_enabled /\ ~answered))
        /\ UNCHANGED <<ext_vars, input_data, job, now, pc, result, scan_vars, cache_enabled,
                       cache_rows, utcnow, last_set, endpoint_vars, handler_vars, accuracy_vars>>

\* JobCache.set(service, payload, response)
CacheSet ==
    \E service \in Services, payload \in Payloads, response \in Responses,
       answered \in BOOLEAN :
        /\ cache_ops < MaxCacheOps
        /\ cache_enabled \/ ~answered
        /\ cache_ops' = cache_ops + 1
        /\ cache_call' = [op |-> "set", service |-> service, payload |-> payload,
                          ttl |-> 0, ok |-> answered]
        /\ cache_rows' = IF ~cache_enabled \/ ~answered THEN cache_rows
                         ELSE Upsert(cache_rows,
                                     [service |-> service,
                                      cache_key |-> _compute_key(service, payload),
                                      response |-> response,
                                      created_at |-> utcnow])
        /\ last_set' = IF ~cache_enabled THEN last_set
                       ELSE {s \in last_set : ~(s.service = service
                                                 /\ s.items = Items(payload))}
                            \cup {[service |-> service, items |-> Items(payload),
                                   response |-> response, at |-> utcnow]}
        /\ store_failed' = (store_failed \/ (cache_enabled /\ ~answered))
        /\ UNCHANGED <<ext_vars, input_data, job, now, pc, result, scan_vars, cache_enabled,
                       utcnow, cache_ret, endpoint_vars, handler_vars, accuracy_vars>>

\* time passes between two requests
TimePasses ==
    \E minutes \in {1, CACHE_TTL_MINUTES} :
        /\ cache_ops < MaxCacheOps
        /\ cache_ops' = cache_ops + 1
        /\ utcnow' = utcnow + minutes
        /\ UNCHANGED <<ext_vars, input_data, job, now, pc, result, scan_vars, cache_enabled,
                       cache_rows, cache_call, cache_ret, last_set, store_failed,
                       endpoint_vars, handler_vars, accuracy_vars>>

NextCache == CacheGet \/ CacheSet \/ TimePasses

SpecCache == InitCache /\ [][NextCache]_vars

(***************************************************************************)
(* The provider endpoints of main.py                                       *)
(***************************************************************************)
Endpoints == {"jsearch", "indeed", "linkedin"}

\* request.model_dump()
RequestPayload ==
    <<<<(<<"j", "o", "b", "T", "i", "t", "l", "e">>), Str(<<"d", "e", "v">>)>>,
      <<(<<"j", "o", "b", "T", "y", "p", "e">>), Str(<<"R", "e", "m", "o", "t", "e">>)>>,
      <<(<<"c", "o", "u", "n", "t", "r", "y">>), Str(<<"u", "s">>)>>>>

\* seq[:n]
FirstN(seq, n) == SubSeq(seq, 1, IF Len(seq) < n THEN Len(seq) ELSE n)

\* a row an earlier request of the endpoint has stored
StoredRow(service, response) ==
    [service |-> service, cache_key |-> _compute_key(service, RequestPayload),
     response |-> response, created_at |-> 0]

InitEndpoint ==
    /\ ExtIdle
    /\ input_data = BaseCriteria
    /\ job = None
    /\ now = Clock
    /\ pc = "idle"
    /\ result = NoResult
    /\ ScanIdle
    /\ cache_enabled \in BOOLEAN
    /\ cache_rows \in {{}} \cup
           {{StoredRow(e, r)} : e \in {x \in Endpoints : cache_enabled}, r \in Responses}
    /\ utcnow = 0
    /\ cache_call = NoCall
    /\ cache_ret = Miss
    /\ cache_ops = 0
    /\ last_set = {}
    /\ store_failed = FALSE
    /\ EndpointIdle
    /\ HandlerIdle
    /\ AccuracyIdle

\* cache.set(service, cache_payload, response_obj.model_dump()) made by an endpoint
StoreResponse(service, response, answered) ==
    /\ cache_enabled \/ ~answered
    /\ cache_ops' = cache_ops + 1
    /\ cache_call' = [op |-> "set", service |-> service, payload |-> RequestPayload,
                      ttl |-> 0, ok |-> answered]
    /\ cache_rows' = IF ~cache_enabled \/ ~answered THEN cache_rows
                     ELSE Upsert(cache_rows,
                                 [service |-> service,
                                  cache_key |-> _compute_key(service, RequestPayload),
                                  response |-> response,
                                  created_at |-> utcnow])
    /\ last_set' = IF ~cache_enabled THEN last_set
                   ELSE {s \in last_set : ~(s.service = service
                                             /\ s.items = Items(RequestPayload))}
                        \cup {[service |-> service, items |-> Items(RequestPayload),
                               response |-> response, at |-> utcnow]}
    /\ store_failed' = (store_failed \/ (cache_enabled /\ ~answered))
    /\ UNCHANGED <<cache_enabled, utcnow, cache_ret>>

\* hit and cached.data.get("jobs"), without the stored jobs being looked at
AnswersOnAnyHit(ret) == ret.hit

\* if hit and cached and cached.data.get("jobs"): the cache check of the three
\* endpoints (main.py lines 246, 431 and 583)
AnswersFromCache(ret) == ret.hit /\ ret.data.jobs # <<>>

\* the start of a request: the cache check; a hit that carries jobs is the answer,
\* otherwise the provider is called, which for jsearch is
\* scan_jobs(scanner_input, num_pages=2, strict_filter=True, min_match_threshold=80.0)
Request ==
    \E e \in Endpoints, answered \in BOOLEAN :
        LET got == IF ~cache_enabled \/ ~answered THEN Miss
                   ELSE GetResult(cache_rows, e, _compute_key(e, RequestPayload),
                                  utcnow - CACHE_TTL_MINUTES)
            served == AnswersFromCache(got)
        IN /\ ep_pc = "idle"
           /\ cache_enabled \/ ~answered
           /\ endpoint' = e
           /\ cache_ops' = cache_ops + 1
           /\ cache_call' = [op |-> "get", service |-> e, payload |-> RequestPayload,
                             ttl |-> CACHE_TTL_MINUTES, ok |-> answered]
           /\ cache_ret' = got
           /\ store_failed' = (store_failed \/ (cache_enabled /\ ~answered))
           /\ ep_pc' = IF served THEN "done" ELSE "provider"
           /\ http_status' = IF served THEN 200 ELSE http_status
           /\ http_jobs' = IF served THEN got.data.jobs ELSE http_jobs
           /\ IF ~served /\ e = "jsearch"
              THEN /\ num_pages' = 2
                   /\ strict_filter' = TRUE
                   /\ min_match_threshold' = 80
                   /\ page' = 1
                   /\ pc' = "fetch"
                   /\ UNCHANGED <<jobs_data, all_jobs, fetched, kept, failed_pages>>
              ELSE UNCHANGED <<pc, scan_vars>>
           /\ UNCHANGED <<ext_vars, input_data, job, now, result, cache_enabled, cache_rows, utcnow,
                          last_set, provider_raised, handler_vars, accuracy_vars>>

\* job_responses of the jsearch endpoint: one JobResponse for each of filtered_jobs[:15];
\* the second fetch of the raw jobs only fills in company and description
JSearchJobResponses(filtered_jobs) ==
    [i \in 1..Len(FirstN(filtered_jobs, 15)) |->
        [title |-> filtered_jobs[i].job_title, applyLink |-> filtered_jobs[i].apply_link]]

\* the rest of search_jobs_jsearch once scan_jobs has returned or raised
JSearchRespond ==
    /\ endpoint = "jsearch"
    /\ ep_pc = "provider"
    /\ pc \in {"done", "raised"}
    /\ ep_pc' = "done"
    /\ IF pc = "raised"
       THEN /\ http_status' = 500
            /\ http_jobs' = <<>>
            /\ UNCHANGED cache_vars
       ELSE /\ http_status' = 200
            /\ http_jobs' = JSearchJobResponses(all_jobs)
            /\ \E answered \in BOOLEAN :
                   StoreResponse("jsearch", JobSearchResponse(JSearchJobResponses(all_jobs)),
                                 answered)
    /\ UNCHANGED <<ext_vars, input_data, job, now, pc, result, scan_vars, endpoint, provider_raised,
                   handler_vars, accuracy_vars>>

\* what search_indeed_jobs and search_linkedin_jobs do: raise, or return the jobs
\* found, none included
ProviderOutcomes == {[raised |-> TRUE, jobs |-> <<>>]}
                        \cup {[raised |-> FALSE, jobs |-> js] : js \in JobLists}

\* the rest of an endpoint that answers 404 when no job is left
RespondOr404(service, outcome) ==
    /\ ep_pc = "provider"
    /\ ep_pc' = "done"
    /\ provider_raised' = outcome.raised
    /\ IF outcome.raised
       THEN /\ http_status' = 500
            /\ http_jobs' = <<>>
            /\ UNCHANGED cache_vars
       ELSE /\ http_status' = IF Len(FirstN(outcome.jobs, 30)) = 0 THEN 404 ELSE 200
            /\ http_jobs' = FirstN(outcome.jobs, 30)
            /\ \E answered \in BOOLEAN :
                   StoreResponse(service, JobSearchResponse(FirstN(outcome.jobs, 30)),
                                 answered)
    /\ UNCHANGED <<ext_vars, input_data, job, now, pc, result, scan_vars, endpoint, handler_vars, accuracy_vars>>

\* the rest of search_jobs_indeed_endpoint
IndeedRespond ==
    /\ endpoint = "indeed"
    /\ \E outcome \in ProviderOutcomes : RespondOr404("indeed", outcome)

\* the rest of search_jobs_linkedin_endpoint
LinkedinRespond ==
    /\ endpoint = "linkedin"
    /\ \E outcome \in ProviderOutcomes : RespondOr404("linkedin", outcome)

NextEndpoint ==
    \/ Request
    \/ FetchPage
    \/ FetchFails
    \/ ProcessJob
    \/ JSearchRespond
    \/ IndeedRespond
    \/ LinkedinRespond

SpecEndpoint == InitEndpoint /\ [][NextEndpoint]_vars

(***************************************************************************)
(* error_handler: what an endpoint tells the client about an exception     *)
(***************************************************************************)
SENSITIVE_PATTERNS ==
    <<<<"a", "p", "i", "_", "k", "e", "y">>,
      <<"a", "p", "i", "k", "e", "y">>,
      <<"a", "p", "i", "-", "k", "e", "y">>,
      <<"t", "o", "k", "e", "n">>,
      <<"p", "a", "s", "s", "w", "o", "r", "d">>,
      <<"s", "e", "c", "r", "e", "t">>,
      <<"a", "p", "i", "f", "y", "_", "a", "p", "i">>,
      <<"r", "a", "p", "i", "d", "_", "a", "p", "i">>,
      <<"s", "u", "p", "a", "b", "a", "s", "e", "_", "k", "e", "y">>>>

\* s.startswith(prefix)
StartsWith(s, prefix) ==
    Len(prefix) <= Len(s) /\ SubSeq(s, 1, Len(prefix)) = prefix

\* s.replace(old, new) for a non-empty old: the occurrences are replaced from the
\* left, none overlapping another
RECURSIVE StrReplace(_, _, _)
StrReplace(s, old, new) ==
    IF s = <<>> THEN <<>>
    ELSE IF StartsWith(s, old)
         THEN new \o StrReplace(SubSeq(s, Len(old) + 1, Len(s)), old, new)
         ELSE <<Head(s)>> \o StrReplace(Tail(s), old, new)

Redacted == <<"[", "R", "E", "D", "A", "C", "T", "E", "D", "]">>

GenericMessage == <<"A", "n", " ", "e", "r", "r", "o", "r", " ", "o", "c", "c", "u", "r", "r", "e",
    "d">>

ProductionSensitiveMessage ==
    <<"A", "n", " ", "e", "r", "r", "o", "r", " ", "o", "c", "c", "u", "r", "r", "e",
    "d", " ", "w", "h", "i", "l", "e", " ", "p", "r", "o", "c", "e", "s", "s", "i",
    "n", "g", " ", "y", "o", "u", "r", " ", "r", "e", "q", "u", "e", "s", "t", ".",
    " ", "P", "l", "e", "a", "s", "e", " ", "t", "r", "y", " ", "a", "g", "a", "i",
    "n", " ", "l", "a", "t", "e", "r", ".">>

ProductionInternalMessage ==
    <<"A", "n", " ", "i", "n", "t", "e", "r", "n", "a", "l", " ", "e", "r", "r", "o",
    "r", " ", "o", "c", "c", "u", "r", "r", "e", "d", ".", " ", "P", "l", "e", "a",
    "s", "e", " ", "c", "o", "n", "t", "a", "c", "t", " ", "s", "u", "p", "p", "o",
    "r", "t", " ", "i", "f", " ", "t", "h", "e", " ", "i", "s", "s", "u", "e", " ",
    "p", "e", "r", "s", "i", "s", "t", "s", ".">>

\* the loop over SENSITIVE_PATTERNS, from the i-th pattern on: the pattern is looked
\* for in lower case, and replaced as it is written
RECURSIVE RedactFrom(_, _)
RedactFrom(sanitized, i) ==
    IF i > Len(SENSITIVE_PATTERNS) THEN sanitized
    ELSE LET pattern == SENSITIVE_PATTERNS[i]
         IN RedactFrom(IF Contains(Lower(pattern), Lower(sanitized))
                       THEN StrReplace(sanitized, pattern, Redacted)
                       ELSE sanitized,
                       i + 1)

sanitize_error_message(error_msg, environment) ==
    IF error_msg = <<>> THEN GenericMessage
    ELSE IF /\ environment = "production"
            /\ \E i \in 1..Len(SENSITIVE_PATTERNS) :
                   Contains(SENSITIVE_PATTERNS[i], Lower(error_msg))
         THEN ProductionSensitiveMessage
    ELSE IF /\ environment = "production"
            /\ \/ Contains(<<"T", "r", "a", "c", "e", "b", "a", "c", "k">>, error_msg)
               \/ Contains(<<"F", "i", "l", "e">>, error_msg)
               \/ Contains(<<".", "p", "y">>, error_msg)
         THEN ProductionInternalMessage
    ELSE RedactFrom(error_msg, 1)

\* an exception: whether it is an HTTPException, its status code then, and its
\* detail or message
handle_exception(e, environment) ==
    IF e.http
    THEN [status_code |-> e.status_code,
          detail |-> IF e.msg # <<>> THEN sanitize_error_message(e.msg, environment)
                     ELSE GenericMessage]
    ELSE [status_code |-> 500, detail |-> sanitize_error_message(e.msg, environment)]

ErrorMessages ==
    {<<>>,
     <<"C", "o", "n", "n", "e", "c", "t", "i", "o", "n", " ", "t", "i", "m", "e", "d",
      " ", "o", "u", "t">>,
     <<"I", "n", "v", "a", "l", "i", "d", " ", "t", "o", "k", "e", "n", "=", "a", "b",
      "c", "1", "2", "3">>,
     <<"A", "P", "I", "_", "K", "E", "Y", "=", "x", "y", "z", "7", "8", "9", " ", "r",
      "e", "j", "e", "c", "t", "e", "d">>,
     <<"B", "a", "d", " ", "P", "a", "s", "s", "w", "o", "r", "d">>,
     <<"T", "r", "a", "c", "e", "b", "a", "c", "k", ":", " ", "F", "i", "l", "e", " ",
      "/", "a", "p", "p", "/", "m", "a", "i", "n", ".", "p", "y", " ", "l", "i", "n",
      "e", " ", "3">>,
     <<"N", "o", " ", "s", "u", "c", "h", " ", "f", "i", "l", "e", ":", " ", "/", "s",
      "r", "v", "/", "d", "a", "t", "a", ".", "j", "s", "o", "n">>,
     <<"s", "e", "c", "r", "e", "t">>,
     <<"J", "o", "b", " ", "n", "o", "t", " ", "f", "o", "u", "n", "d">>,
     <<"r", "a", "p", "i", "d", "_", "a", "p", "i", " ", "q", "u", "o", "t", "a", " ",
      "e", "x", "c", "e", "e", "d", "e", "d">>}

\* HTTPException(status_code, detail) and any other exception
Exceptions ==
    {[http |-> TRUE, status_code |-> sc, msg |-> m] : sc \in {400, 404, 503}, m \in ErrorMessages}
        \cup {[http |-> FALSE, status_code |-> 0, msg |-> m] : m \in ErrorMessages}

NoException == [status_code |-> 0, detail |-> <<>>]

InitHandler ==
    /\ ExtIdle
    /\ input_data = BaseCriteria
    /\ job = BaseJob
    /\ now = Clock
    /\ pc = "idle"
    /\ result = NoResult
    /\ ScanIdle
    /\ CacheIdle
    /\ EndpointIdle
    /\ ENVIRONMENT \in {"development", "staging", "production"}
    /\ raised_exc \in Exceptions
    /\ http_exc = NoException
    /\ AccuracyIdle

\* raise handle_exception(e, endpoint)
HandleException ==
    /\ http_exc = NoException
    /\ http_exc' = handle_exception(raised_exc, ENVIRONMENT)
    /\ UNCHANGED <<ext_vars, input_data, job, now, pc, result, scan_vars, cache_vars, endpoint_vars,
                   ENVIRONMENT, raised_exc, accuracy_vars>>

NextHandler == HandleException

SpecHandler == InitHandler /\ [][NextHandler]_vars

(***************************************************************************)
(* test_accuracy: how well a batch of scanner outputs matches the criteria *)
(***************************************************************************)
NA == <<"N", "/", "A">>

\* parse_salary_range of the evaluator: None, or the pair of the first two numbers
parse_salary_range(salary_str) ==
    IF salary_str = <<>> \/ salary_str = NA THEN NoRange
    ELSE LET numbers == FindAllNumbers(Replace(salary_str, ",", <<>>))
         IN IF Len(numbers) >= 2
            THEN [ok |-> TRUE, lo |-> FloatOf(numbers[1]), hi |-> FloatOf(numbers[2])]
            ELSE IF Len(numbers) = 1
            THEN [ok |-> TRUE, lo |-> FloatOf(numbers[1]), hi |-> FloatOf(numbers[1])]
            ELSE NoRange

check_salary_match(input_salary, output_salary) ==
    IF input_salary = <<>> \/ input_salary = NA THEN TRUE
    ELSE LET input_range == parse_salary_range(input_salary)
             output_range == parse_salary_range(output_salary)
         IN IF ~input_range.ok \/ ~output_range.ok THEN TRUE
            ELSE ~(output_range.hi < input_range.lo \/ output_range.lo > input_range.hi)

check_date_match(input_date, output_date, clock) ==
    IF input_date = <<>> \/ input_date = NA THEN TRUE
    ELSE IF output_date = <<>> \/ output_date = NA THEN FALSE
    ELSE IF Contains(<<"T">>, output_date)
    THEN LET output_dt == fromisoformat(Replace(output_date, "Z",
                                                <<"+", "0", "0", ":", "0", "0">>))
         IN IF ~output_dt.ok THEN TRUE           \* ValueError, caught by the bare except
            ELSE IF output_dt.aware THEN TRUE    \* aware now minus naive: TypeError, caught
            ELSE DateBucketMatch(Lower(input_date), DeltaDays(clock, output_dt))
    ELSE TRUE

\* job_type.lower() of a job type of the schema
TypeLower(job_type) ==
    CASE job_type = "Remote" -> <<"r", "e", "m", "o", "t", "e">>
      [] job_type = "On site" -> <<"o", "n", " ", "s", "i", "t", "e">>
      [] job_type = "Hybrid" -> <<"h", "y", "b", "r", "i", "d">>
      [] OTHER -> <<>>

check_location_match(input_city, input_state, output_city, output_state, job_type) ==
    IF Contains(<<"r", "e", "m", "o", "t", "e">>, TypeLower(job_type)) THEN TRUE
    ELSE IF input_city = <<>> /\ input_state = <<>> THEN TRUE
    ELSE LET city_match == \/ input_city = <<>>
                           \/ Contains(Lower(input_city), Lower(output_city))
                           \/ Contains(Lower(output_city), Lower(input_city))
             state_match == \/ input_state = <<>>
                            \/ Contains(Lower(input_state), Lower(output_state))
                            \/ Contains(Lower(output_state), Lower(input_state))
         IN city_match \/ state_match

check_job_type_match(input_type, output_type) ==
    IF input_type = "" THEN TRUE
    ELSE IF TypeLower(input_type) = <<"r", "e", "m", "o", "t", "e">>
         THEN Contains(<<"r", "e", "m", "o", "t", "e">>, TypeLower(output_type))
    ELSE IF TypeLower(input_type) = <<"o", "n", " ", "s", "i", "t", "e">>
         THEN /\ ~Contains(<<"r", "e", "m", "o", "t", "e">>, TypeLower(output_type))
              /\ ~Contains(<<"h", "y", "b", "r", "i", "d">>, TypeLower(output_type))
    ELSE IF TypeLower(input_type) = <<"h", "y", "b", "r", "i", "d">>
         THEN Contains(<<"h", "y", "b", "r", "i", "d">>, TypeLower(output_type))
    ELSE TRUE

check_job_title_match(input_title, output_title) ==
    IF input_title = <<>> THEN TRUE
    ELSE LET input_words == Words(Lower(input_title))
             output_words == Words(Lower(output_title))
             long_words == {w \in input_words : Len(w) > 3}
             key_words == IF long_words = {} THEN input_words ELSE long_words
         IN 2 * Cardinality({w \in key_words : w \in output_words}) >= Cardinality(key_words)

check_industry_match(input_industry, output_industry) ==
    IF input_industry = <<>> \/ input_industry = NA THEN TRUE
    ELSE \/ Contains(Lower(input_industry), Lower(output_industry))
         \/ Contains(Lower(output_industry), Lower(input_industry))

\* country_map of check_country_match
CountryAliases ==
    [us |-> << <<"u", "s">>, <<"u", "s", "a">>,
               <<"u", "n", "i", "t", "e", "d", " ", "s", "t", "a", "t", "e", "s">>,
               <<"u", "n", "i", "t", "e", "d", " ", "s", "t", "a", "t", "e", "s", " ", "o", "f", " ", "a", "m", "e", "r", "i", "c", "a">> >>,
     uk |-> << <<"u", "k">>, <<"g", "b">>,
               <<"u", "n", "i", "t", "e", "d", " ", "k", "i", "n", "g", "d", "o", "m">>,
               <<"g", "r", "e", "a", "t", " ", "b", "r", "i", "t", "a", "i", "n">> >>,
     ca |-> << <<"c", "a">>, <<"c", "a", "n", "a", "d", "a">> >>]

check_country_match(input_country, output_country) ==
    IF input_country = <<>> THEN TRUE
    ELSE IF CountryKey(Lower(input_country)) # ""
    THEN \E i \in DOMAIN CountryAliases[CountryKey(Lower(input_country))] :
            Contains(CountryAliases[CountryKey(Lower(input_country))][i],
                     Lower(output_country))
    ELSE \/ Contains(Lower(input_country), Lower(output_country))
         \/ Contains(Lower(output_country), Lower(input_country))

Fields == <<"job_title", "industry", "salary_range", "job_type", "location", "country",
            "date_posted">>

\* the seven matchers applied to one job: lines 195-205
FieldMatches(c, j, clock) ==
    [job_title |-> check_job_title_match(c.job_title, j.job_title.s),
     industry |-> check_industry_match(c.industry, OrEmpty(j.industry).s),
     salary_range |-> check_salary_match(c.salary_range, OrEmpty(j.salary_range).s),
     job_type |-> check_job_type_match(c.job_type, j.job_type),
     location |-> check_location_match(c.location_city, c.location_state,
                                       OrEmpty(j.location_city).s,
                                       OrEmpty(j.location_state).s, j.job_type),
     country |-> check_country_match(c.country, OrEmpty(j.country).s),
     date_posted |-> check_date_match(c.date_posted, OrEmpty(j.date_posted).s, clock)]

\* sum(...) of a list of booleans
RECURSIVE SumTrue(_)
SumTrue(bools) ==
    IF bools = <<>> THEN 0 ELSE (IF Head(bools) THEN 1 ELSE 0) + SumTrue(Tail(bools))

\* the score over the fields but one
MatchScoreOfSix(matches) == [num |-> 100 * matches, den |-> Len(Fields) - 1]

\* (matches / 7) * 100
MatchScore(matches) == [num |-> 100 * matches, den |-> Len(Fields)]

\* a + b of two fractions, over the common denominator when they share one
PlusFrac(a, b) ==
    IF a.den = b.den THEN [num |-> a.num + b.num, den |-> a.den]
    ELSE [num |-> a.num * b.den + b.num * a.den, den |-> a.den * b.den]

\* sum(...) of a list of fractions
RECURSIVE SumFrac(_)
SumFrac(fracs) ==
    IF fracs = <<>> THEN [num |-> 0, den |-> 1]
    ELSE PlusFrac(Head(fracs), SumFrac(Tail(fracs)))

\* f / n
DivFrac(f, n) == [num |-> f.num, den |-> f.den * n]

NoAccuracy ==
    [total_jobs |-> 0, field_accuracies |-> <<>>, overall_accuracy |-> [num |-> 0, den |-> 1],
     detailed_results |-> <<>>]

calculate_accuracy(c, jobs, clock) ==
    IF jobs = <<>> THEN NoAccuracy
    ELSE LET matched == [i \in 1..Len(jobs) |-> FieldMatches(c, jobs[i], clock)]
             field_matches == [f \in 1..Len(Fields) |->
                                  [i \in 1..Len(jobs) |-> matched[i][Fields[f]]]]
             detailed_results ==
                 [i \in 1..Len(jobs) |->
                     [job_title |-> jobs[i].job_title,
                      match_score |-> MatchScore(SumTrue([f \in 1..Len(Fields) |->
                                                            matched[i][Fields[f]]])),
                      matches |-> matched[i]]]
             field_accuracies ==
                 [f \in 1..Len(Fields) |->
                     [num |-> 100 * SumTrue(field_matches[f]), den |-> Len(jobs)]]
         IN [total_jobs |-> Len(jobs),
             field_accuracies |-> field_accuracies,
             overall_accuracy |-> DivFrac(SumFrac(field_accuracies), Len(Fields)),
             detailed_results |-> detailed_results]

MaxBatch == 3

\* provider jobs whose outputs make the batch: those of the scan, one paid above
\* the range, one posted two months ago, one in another city and state
EvalJobs ==
    ScanPool \cup
    { [BaseJob EXCEPT !.job_min_salary = Num(90000), !.job_max_salary = Num(95000)],
      [BaseJob EXCEPT !.job_posted_at_datetime_utc =
          Str(<<"2", "0", "2", "4", "-", "0", "1", "-", "1", "0", "T", "1", "2", ":", "0", "0", ":", "0", "0">>)],
      [BaseJob EXCEPT !.job_city = Str(<<"D", "a", "l", "l", "a", "s">>), !.job_state = Str(<<"C", "A">>)] }

InitAccuracy ==
    /\ ExtIdle
    /\ input_data \in {BaseCriteria,
                       [BaseCriteria EXCEPT !.job_type = "Remote", !.industry = <<>>]}
    /\ job = None
    /\ now = Clock
    /\ pc = "idle"
    /\ result = NoResult
    /\ ScanIdle
    /\ CacheIdle
    /\ EndpointIdle
    /\ HandlerIdle
    /\ batch \in UNION {[1..n -> {JobOutput(input_data, j) : j \in EvalJobs}] : n \in 1..MaxBatch}
    /\ accuracy = NoAccuracy

\* accuracy = calculate_accuracy(input_data, jobs)
CalculateAccuracy ==
    /\ accuracy = NoAccuracy
    /\ accuracy' = calculate_accuracy(input_data, batch, now)
    /\ UNCHANGED <<ext_vars, input_data, job, now, pc, result, scan_vars, cache_vars, endpoint_vars,
                   handler_vars, batch>>

NextAccuracy == CalculateAccuracy

SpecAccuracy == InitAccuracy /\ [][NextAccuracy]_vars

(***************************************************************************)
(* One provider job scored by the scanner and its output by the evaluator  *)
(***************************************************************************)
InitEvaluate ==
    /\ ExtIdle
    /\ input_data \in Criteria
    /\ job \in {j \in EvalJobs : ~OutputRaises(j)}
    /\ now = Clock
    /\ pc = "start"
    /\ result = NoResult
    /\ ScanIdle
    /\ CacheIdle
    /\ EndpointIdle
    /\ HandlerIdle
    /\ AccuracyIdle

\* the job is scored by the scanner, its output is evaluated against the same
\* criteria
ScoreAndEvaluate ==
    /\ pc = "start"
    /\ result' = _calculate_job_match_score(input_data, job, now)
    /\ batch' = <<JobOutput(input_data, job)>>
    /\ accuracy' = calculate_accuracy(input_data, batch', now)
    /\ pc' = "return"
    /\ UNCHANGED <<ext_vars, input_data, job, now, scan_vars, cache_vars, endpoint_vars, handler_vars>>

NextEvaluate == ScoreAndEvaluate

SpecEvaluate == InitEvaluate /\ [][NextEvaluate]_vars

(***************************************************************************)
(* datePosted: from the request validator to the provider query and the    *)
(* scorer's date check                                                     *)
(***************************************************************************)
\* str.strip()
RECURSIVE Strip(_)
Strip(s) ==
    IF s = <<>> THEN s
    ELSE IF IsSpace(Head(s)) THEN Strip(Tail(s))
    ELSE IF IsSpace(s[Len(s)]) THEN Strip(SubSeq(s, 1, Len(s) - 1))
    ELSE s

valid_values == {<<"2", "4", "h">>, <<"d", "a", "y">>, <<"t", "o", "d", "a", "y">>, <<"w", "e", "e", "k">>, <<"m", "o", "n", "t", "h">>, <<"a", "n", "y", "t", "i", "m", "e">>, <<"a", "l", "l">>}

\* JobSearchRequest.validate_date_posted
validate_date_posted(v) ==
    IF v = <<>> THEN <<>>
    ELSE LET v_lower == Strip(Lower(v))
         IN IF v_lower \in valid_values THEN v_lower
            ELSE IF Contains(<<"d", "a", "y">>, v_lower) \/ Contains(<<"2", "4">>, v_lower) THEN <<"2", "4", "h">>
            ELSE IF Contains(<<"w", "e", "e", "k">>, v_lower) THEN <<"w", "e", "e", "k">>
            ELSE IF Contains(<<"m", "o", "n", "t", "h">>, v_lower) THEN <<"m", "o", "n", "t", "h">>
            ELSE <<"a", "n", "y", "t", "i", "m", "e">>

\* Map date_posted to JSearch format (all, day, week, month)
DatePostedParam(criteria_date) ==
    IF criteria_date = <<>> THEN <<"a", "l", "l">>
    ELSE IF Contains(<<"d", "a", "y">>, Lower(criteria_date)) \/ Contains(<<"t", "o", "d", "a", "y">>, Lower(criteria_date))
         THEN <<"d", "a", "y">>
    ELSE IF Contains(<<"w", "e", "e", "k">>, Lower(criteria_date)) THEN <<"w", "e", "e", "k">>
    ELSE IF Contains(<<"m", "o", "n", "t", "h">>, Lower(criteria_date)) THEN <<"m", "o", "n", "t", "h">>
    ELSE <<"a", "l", "l">>

\* what clients send as datePosted
DateInputs ==
    {<<>>, <<"2", "4", "h">>, <<"d", "a", "y">>, <<"t", "o", "d", "a", "y">>, <<"T", "o", "d", "a", "y">>, <<" ", "D", "A", "Y", " ">>, <<"2", "4", " ", "h", "o", "u", "r", "s">>, <<"1", " ", "d", "a", "y", " ", "a", "g", "o">>,
     <<"l", "a", "s", "t", " ", "2", "4">>, <<"w", "e", "e", "k">>, <<"T", "h", "i", "s", " ", "W", "e", "e", "k">>, <<"m", "o", "n", "t", "h">>, <<"a", "n", "y", "t", "i", "m", "e">>, <<"a", "l", "l">>, <<"r", "e", "c", "e", "n", "t">>}

\* the job posted 1, 2, 5 and 60 days before the clock, and one without a date
DateJobs ==
    {BaseJob,
     [BaseJob EXCEPT !.job_posted_at_datetime_utc = Str(<<"2", "0", "2", "4", "-", "0", "3", "-", "0", "8", "T", "1", "2", ":", "0", "0", ":", "0", "0">>)],
     [BaseJob EXCEPT !.job_posted_at_datetime_utc = Str(<<"2", "0", "2", "4", "-", "0", "3", "-", "0", "5", "T", "1", "2", ":", "0", "0", ":", "0", "0">>)],
     [BaseJob EXCEPT !.job_posted_at_datetime_utc = Str(<<"2", "0", "2", "4", "-", "0", "1", "-", "1", "0", "T", "1", "2", ":", "0", "0", ":", "0", "0">>)],
     [BaseJob EXCEPT !.job_posted_at_datetime_utc = Absent]}

InitDate ==
    /\ datePosted \in DateInputs
    /\ params_date_posted = <<>>
    /\ MiddlewareIdle
    /\ ClientsIdle
    /\ input_data = BaseCriteria
    /\ job \in DateJobs
    /\ now = Clock
    /\ pc = "request"
    /\ result = NoResult
    /\ ScanIdle
    /\ ServicesIdle

\* the request is validated and mapped to the JobScannerInput
ValidateRequest ==
    /\ pc = "request"
    /\ input_data' = [input_data EXCEPT !.date_posted = validate_date_posted(datePosted)]
    /\ pc' = "query"
    /\ UNCHANGED <<datePosted, params_date_posted, job, now, result, scan_vars, service_vars>>
    /\ UNCHANGED <<rate_vars, auth_vars, request_id_vars, client_vars>>

\* scan_jobs builds the provider query
BuildQuery ==
    /\ pc = "query"
    /\ params_date_posted' = DatePostedParam(input_data.date_posted)
    /\ pc' = "call"
    /\ UNCHANGED <<datePosted, input_data, job, now, result, scan_vars, service_vars>>
    /\ UNCHANGED <<rate_vars, auth_vars, request_id_vars, client_vars>>

NextDate == ValidateRequest \/ BuildQuery \/ Calculate

SpecDate == InitDate /\ [][NextDate]_vars

(***************************************************************************)
(* RateLimitMiddleware: the in-memory request counts per client IP         *)
(***************************************************************************)
MaxRateOps == 6

\* sum(count for ts, count in entries if ts > since)
RECURSIVE CountSince(_, _)
CountSince(entries, since) ==
    IF entries = <<>> THEN 0
    ELSE (IF Head(entries).ts > since THEN Head(entries).count ELSE 0)
            + CountSince(Tail(entries), since)

\* _cleanup_old_entries: the entries of the last hour
_cleanup_old_entries(entries, time) ==
    LET cutoff == time - 3600
        Recent(e) == e.ts > cutoff
    IN SelectSeq(entries, Recent)

\* the limit test with the comparison strict
LimitExceeded(count, limit) == count > limit

\* the limit test of lines 80 and 83
LimitReached(count, limit) == count >= limit

\* _check_rate_limit on the entries of the IP: whether the call is allowed, and
\* the entries it leaves
_check_rate_limit(entries, time, is_enabled, minute_limit, hour_limit) ==
    IF ~is_enabled THEN [allowed |-> TRUE, entries |-> entries]
    ELSE LET cleaned == _cleanup_old_entries(entries, time)
             minute_count == CountSince(cleaned, time - 60)
             hour_count == CountSince(cleaned, time - 3600)
         IN IF LimitReached(minute_count, minute_limit)
            THEN [allowed |-> FALSE, entries |-> cleaned]
            ELSE IF LimitReached(hour_count, hour_limit)
            THEN [allowed |-> FALSE, entries |-> cleaned]
            ELSE [allowed |-> TRUE,
                  entries |-> Append(cleaned, [ts |-> time, count |-> 1])]

\* the limits of the settings, scaled down
InitRateLimit ==
    /\ DateIdle
    /\ ClientsIdle
    /\ AuthIdle
    /\ RequestIdIdle
    /\ enabled \in BOOLEAN
    /\ per_minute \in {1, 2}
    /\ per_hour \in {2, 3}
    /\ _request_counts = [ip \in IPs |-> <<>>]
    /\ current_time = 0
    /\ check_ret = NoCheck
    /\ admitted = [ip \in IPs |-> <<>>]
    /\ forwarded = <<>>
    /\ dispatch_ret = NoDispatch
    /\ rate_ops = 0
    /\ CoreIdle

\* one call self._check_rate_limit(ip)
CheckRateLimit ==
    /\ rate_ops < MaxRateOps
    /\ \E ip \in IPs :
          LET r == _check_rate_limit(_request_counts[ip], current_time, enabled,
                                     per_minute, per_hour)
          IN /\ _request_counts' = [_request_counts EXCEPT ![ip] = r.entries]
             /\ check_ret' = [ip |-> ip, allowed |-> r.allowed]
             /\ admitted' = IF r.allowed /\ enabled
                            THEN [admitted EXCEPT ![ip] = Append(@, current_time)]
                            ELSE admitted
    /\ rate_ops' = rate_ops + 1
    /\ UNCHANGED <<enabled, per_minute, per_hour, current_time, forwarded, dispatch_ret>>
    /\ UNCHANGED <<date_vars, auth_vars, request_id_vars, client_vars, core_vars>>

\* the wall clock moves on by a second, a minute or an hour
TimeAdvances ==
    /\ rate_ops < MaxRateOps
    /\ \E d \in {1, 60, 3600} : current_time' = current_time + d
    /\ rate_ops' = rate_ops + 1
    /\ UNCHANGED <<enabled, per_minute, per_hour, _request_counts, check_ret, admitted,
                   forwarded, dispatch_ret>>
    /\ UNCHANGED <<date_vars, auth_vars, request_id_vars, client_vars, core_vars>>

NextRateLimit == CheckRateLimit \/ TimeAdvances

SpecRateLimit == InitRateLimit /\ [][NextRateLimit]_vars

\* Endpoints that don't require rate limiting
EXEMPT_ENDPOINTS == <<<<"/">>, <<"/", "h", "e", "a", "l", "t", "h">>, <<"/", "d", "o", "c", "s">>, <<"/", "o", "p", "e", "n", "a", "p", "i", ".", "j", "s", "o", "n">>, <<"/", "r", "e", "d", "o", "c">>>>

\* any(request.url.path.startswith(endpoint) for endpoint in self.EXEMPT_ENDPOINTS)
IsExempt(path) == \E i \in DOMAIN EXEMPT_ENDPOINTS : StartsWith(path, EXEMPT_ENDPOINTS[i])

\* the paths clients request
Paths ==
    {<<"/">>, <<"/", "h", "e", "a", "l", "t", "h">>,
     <<"/", "a", "p", "i", "/", "j", "o", "b", "s", "/", "j", "s", "e", "a", "r", "c", "h">>}

MaxRequests == 3

\* RateLimitMiddleware.dispatch; the handler behind call_next answers 200
Dispatch ==
    /\ rate_ops < MaxRateOps
    /\ Len(forwarded) < MaxRequests
    /\ \E ip \in IPs, path \in Paths :
          IF IsExempt(path)
          THEN /\ forwarded' = Append(forwarded, [ip |-> ip, path |-> path, ts |-> current_time])
               /\ dispatch_ret' = [ip |-> ip, path |-> path, status_code |-> 200]
               /\ UNCHANGED <<_request_counts, check_ret, admitted>>
          ELSE LET r == _check_rate_limit(_request_counts[ip], current_time, enabled,
                                          per_minute, per_hour)
               IN /\ _request_counts' = [_request_counts EXCEPT ![ip] = r.entries]
                  /\ check_ret' = [ip |-> ip, allowed |-> r.allowed]
                  /\ admitted' = IF r.allowed /\ enabled
                                 THEN [admitted EXCEPT ![ip] = Append(@, current_time)]
                                 ELSE admitted
                  /\ forwarded' = IF r.allowed
                                  THEN Append(forwarded,
                                              [ip |-> ip, path |-> path, ts |-> current_time])
                                  ELSE forwarded
                  /\ dispatch_ret' = [ip |-> ip, path |-> path,
                                      status_code |-> IF r.allowed THEN 200 ELSE 429]
    /\ rate_ops' = rate_ops + 1
    /\ UNCHANGED <<enabled, per_minute, per_hour, current_time>>
    /\ UNCHANGED <<date_vars, auth_vars, request_id_vars, client_vars, core_vars>>

NextDispatch == Dispatch \/ TimeAdvances

SpecDispatch == InitRateLimit /\ [][NextDispatch]_vars

(***************************************************************************)
(* APIKeyAuthMiddleware                                                    *)
(***************************************************************************)
MaxAuthRequests == 2

\* Endpoints that don't require authentication
PUBLIC_ENDPOINTS == {<<"/">>, <<"/", "h", "e", "a", "l", "t", "h">>, <<"/", "d", "o", "c", "s">>, <<"/", "o", "p", "e", "n", "a", "p", "i", ".", "j", "s", "o", "n">>, <<"/", "r", "e", "d", "o", "c">>}

\* public by prefix: every path that starts with a public endpoint
IsPublicByPrefix(path) == \E e \in PUBLIC_ENDPOINTS : StartsWith(path, e)

\* request.url.path in self.PUBLIC_ENDPOINTS
IsPublic(path) == path \in PUBLIC_ENDPOINTS

\* the response of APIKeyAuthMiddleware.dispatch and whether call_next was
\* called; the handler answers 200
AuthResponse(path, api_key, configured_key) ==
    IF IsPublic(path) THEN [status_code |-> 200, called |-> TRUE]
    ELSE IF configured_key = <<>> THEN [status_code |-> 200, called |-> TRUE]
    ELSE IF ~Truthy(api_key) THEN [status_code |-> 401, called |-> FALSE]
    ELSE IF api_key # Str(configured_key) THEN [status_code |-> 403, called |-> FALSE]
    ELSE [status_code |-> 200, called |-> TRUE]

\* the paths requested: public ones, paths that extend a public one, an API path
AuthPaths == {<<"/">>, <<"/", "h", "e", "a", "l", "t", "h">>, <<"/", "h", "e", "a", "l", "t", "h", "/">>, <<"/", "d", "o", "c", "s", "2">>, <<"/", "r", "e", "d", "o", "c">>, <<"/", "a", "p", "i", "/", "j", "o", "b", "s", "/", "j", "s", "e", "a", "r", "c", "h">>}

\* request.headers.get(settings.API_KEY_HEADER): no header, an empty one, the
\* key, and keys that differ in case, are a prefix of the key or extend it
ApiKeyHeaders ==
    {None, Str(<<>>), Str(<<"s", "3", "c", "r", "e", "t">>), Str(<<"S", "3", "C", "R", "E", "T">>), Str(<<"s", "3", "c">>), Str(<<"s", "3", "c", "r", "e", "t", "1">>)}

InitAuth ==
    /\ DateIdle
    /\ ClientsIdle
    /\ RateIdle
    /\ RequestIdIdle
    /\ API_KEY \in {<<>>, <<"s", "3", "c", "r", "e", "t">>}
    /\ auth_log = <<>>
    /\ CoreIdle

\* one request through APIKeyAuthMiddleware.dispatch
AuthDispatch ==
    /\ Len(auth_log) < MaxAuthRequests
    /\ \E path \in AuthPaths, api_key \in ApiKeyHeaders :
          auth_log' = Append(auth_log,
                             [path |-> path, api_key |-> api_key]
                                 @@ AuthResponse(path, api_key, API_KEY))
    /\ UNCHANGED <<API_KEY, date_vars, rate_vars, request_id_vars, client_vars, core_vars>>

NextAuth == AuthDispatch

SpecAuth == InitAuth /\ [][NextAuth]_vars

(***************************************************************************)
(* RequestIDMiddleware: the process-wide log record factory                *)
(***************************************************************************)
MaxInFlight == 4

\* the requests handled concurrently, named by their request ID
RequestIDs == 1..MaxInFlight

\* the factory logging installs by default: no wrapper
OriginalFactory == <<>>

\* record.request_id of a record made by the factory: each wrapper calls the
\* factory it wraps first and sets its ID only if none is set, so the innermost
\* wrapper stamps the record; 0 when no wrapper does
RequestIdOfRecord(factory) == IF factory = <<>> THEN 0 ELSE factory[Len(factory)]

InitRequestId ==
    /\ DateIdle
    /\ ClientsIdle
    /\ RateIdle
    /\ AuthIdle
    /\ log_record_factory = OriginalFactory
    /\ old_factory = [r \in RequestIDs |-> OriginalFactory]
    /\ req_pc = [r \in RequestIDs |-> "new"]
    /\ CoreIdle

\* lines 19-37: the factory in place is saved, the wrapper is installed, and the
\* coroutine is suspended in call_next
BeginRequest ==
    /\ \E r \in RequestIDs :
          /\ req_pc[r] = "new"
          /\ old_factory' = [old_factory EXCEPT ![r] = log_record_factory]
          /\ log_record_factory' = <<r>> \o log_record_factory
          /\ req_pc' = [req_pc EXCEPT ![r] = "awaiting"]
    /\ UNCHANGED <<date_vars, rate_vars, auth_vars, client_vars, core_vars>>

\* lines 38-43: call_next has returned or raised; the finally clause installs the
\* saved factory
EndRequest ==
    /\ \E r \in RequestIDs :
          /\ req_pc[r] = "awaiting"
          /\ log_record_factory' = old_factory[r]
          /\ req_pc' = [req_pc EXCEPT ![r] = "done"]
    /\ UNCHANGED <<old_factory, date_vars, rate_vars, auth_vars, client_vars, core_vars>>

NextRequestId == BeginRequest \/ EndRequest

SpecRequestId == InitRequestId /\ [][NextRequestId]_vars

(***************************************************************************)
(* search_indeed_jobs: polling the status of the Apify run                 *)
(***************************************************************************)
INDEED_TIMEOUT == 120

\* the statuses that end the polling loop, with TIMED-OUT among them
TerminalOrTimedOut == {"SUCCEEDED", "FAILED", "ABORTED", "TIMED-OUT"}

\* status in ["SUCCEEDED", "FAILED", "ABORTED"]
TerminalStatuses == {"SUCCEEDED", "FAILED", "ABORTED"}

\* the statuses of an Apify run
ApifyStatuses ==
    {"READY", "RUNNING", "TIMING-OUT", "TIMED-OUT", "ABORTING", "SUCCEEDED", "FAILED", "ABORTED"}

\* the seconds a status request takes: at once, or up to its timeout of 10
RequestSeconds == {0, 4, 10}

\* the run has been started; start_time = time.time()
InitPoll ==
    /\ DateIdle
    /\ MiddlewareIdle
    /\ CoreIdle
    /\ TheirstackIdle
    /\ IndeedIdle
    /\ poll_pc = "polling"
    /\ apify_status = ""
    /\ poll_time \in {0, 1, 2}
    /\ start_time = poll_time

\* one iteration of the while loop of lines 228-247
PollStatus ==
    /\ poll_pc = "polling"
    /\ IF poll_time - start_time > INDEED_TIMEOUT
       THEN /\ poll_pc' = "TimeoutError"
            /\ UNCHANGED <<apify_status, poll_time>>
       ELSE \E d \in RequestSeconds :
               \/ \* requests.RequestException: logged, sleep, continue
                  /\ poll_time' = poll_time + d + 3
                  /\ UNCHANGED <<poll_pc, apify_status>>
               \/ \* an answer without data.status: KeyError, not caught
                  /\ poll_pc' = "raised"
                  /\ poll_time' = poll_time + d
                  /\ UNCHANGED apify_status
               \/ \E status \in ApifyStatuses :
                     /\ apify_status' = status
                     /\ IF status \in TerminalStatuses
                        THEN poll_pc' = "finished" /\ poll_time' = poll_time + d
                        ELSE poll_pc' = "polling" /\ poll_time' = poll_time + d + 3
    /\ UNCHANGED <<start_time, theirstack_vars, indeed_vars, date_vars, rate_vars, auth_vars, request_id_vars,
                   core_vars>>

\* lines 249-270: the run is checked and the dataset is fetched
FetchDataset ==
    /\ poll_pc = "finished"
    /\ IF apify_status \in {"FAILED", "ABORTED"}
       THEN poll_pc' = "RuntimeError"
       ELSE poll_pc' \in {"returned", "raised"}   \* the dataset request can fail
    /\ UNCHANGED <<apify_status, poll_time, start_time, theirstack_vars, indeed_vars, date_vars, rate_vars,
                   auth_vars, request_id_vars, core_vars>>

NextPoll == PollStatus \/ FetchDataset

SpecPoll == InitPoll /\ [][NextPoll]_vars /\ WF_vars(PollStatus) /\ WF_vars(FetchDataset)

(***************************************************************************)
(* search_jobs_theirstack_multiple_pages                                   *)
(***************************************************************************)
MaxTsPages == 3

\* what one call of search_jobs_theirstack does: it returns jobs or an empty
\* list, raises HTTPError for a status of 400 or above, or raises another
\* exception (a connection error, a timeout)
PageOutcomes ==
    {[kind |-> "jobs", status_code |-> 200], [kind |-> "empty", status_code |-> 200],
     [kind |-> "HTTPError", status_code |-> 429], [kind |-> "HTTPError", status_code |-> 401],
     [kind |-> "HTTPError", status_code |-> 500], [kind |-> "Exception", status_code |-> 0]}

\* bool(e.response): a requests.Response is true when its status is below 400
ResponseTruthy(status_code) == status_code < 400

\* whether the except clauses of lines 258-272 leave the loop
BreaksOn(outcome) ==
    /\ outcome.kind = "HTTPError"
    /\ \/ ResponseTruthy(outcome.status_code) /\ outcome.status_code = 429
       \/ ResponseTruthy(outcome.status_code) /\ outcome.status_code = 401

InitTheirstack ==
    /\ DateIdle
    /\ MiddlewareIdle
    /\ PollIdle
    /\ IndeedIdle
    /\ CoreIdle
    /\ ts_num_pages \in 0..MaxTsPages
    /\ ts_page = 0
    /\ ts_pc = "loop"
    /\ ts_all_jobs = <<>>
    /\ ts_requests = <<>>

\* one iteration of the loop over range(num_pages)
FetchTheirstackPage ==
    /\ ts_pc = "loop"
    /\ ts_page < ts_num_pages
    /\ \E outcome \in PageOutcomes :
          /\ ts_requests' = Append(ts_requests, [page |-> ts_page, outcome |-> outcome])
          /\ ts_all_jobs' = IF outcome.kind = "jobs" THEN Append(ts_all_jobs, ts_page)
                            ELSE ts_all_jobs
          /\ IF outcome.kind = "empty" \/ BreaksOn(outcome)
             THEN ts_pc' = "returned" /\ UNCHANGED ts_page
             ELSE ts_page' = ts_page + 1 /\ UNCHANGED ts_pc
    /\ UNCHANGED <<ts_num_pages, poll_vars, indeed_vars, date_vars, rate_vars, auth_vars, request_id_vars,
                   core_vars>>

\* the loop is exhausted: return all_jobs
ReturnAllJobs ==
    /\ ts_pc = "loop"
    /\ ts_page >= ts_num_pages
    /\ ts_pc' = "returned"
    /\ UNCHANGED <<ts_num_pages, ts_page, ts_all_jobs, ts_requests, poll_vars, indeed_vars, date_vars,
                   rate_vars, auth_vars, request_id_vars, core_vars>>

NextTheirstack == FetchTheirstackPage \/ ReturnAllJobs

SpecTheirstack == InitTheirstack /\ [][NextTheirstack]_vars

(***************************************************************************)
(* search_jobs_indeed_endpoint: the ids of the jobs of the response        *)
(***************************************************************************)
MaxIndeedJobs == 3

HexDigits == <<"0", "1", "2", "3", "4", "5", "6", "7", "8", "9", "a", "b", "c", "d", "e", "f">>

IsHex(c) == \E i \in DOMAIN HexDigits : HexDigits[i] = c

\* the longest run of hex digits at the head of s
RECURSIVE HexRun(_)
HexRun(s) == IF s # <<>> /\ IsHex(Head(s)) THEN <<Head(s)>> \o HexRun(Tail(s)) ELSE <<>>

\* re.search(r'jk=([a-f0-9]+)', job_url): group 1 of the leftmost match, or
\* <<>> when there is none
JkMatch(job_url) ==
    LET starts == {i \in 1..Len(job_url) :
                      /\ i + 3 <= Len(job_url)
                      /\ SubSeq(job_url, i, i + 2) = <<"j", "k", "=">>
                      /\ IsHex(job_url[i + 3])}
    IN IF starts = {} THEN <<>>
       ELSE LET first == CHOOSE i \in starts : \A k \in starts : i <= k
            IN HexRun(SubSeq(job_url, first + 3, Len(job_url)))

\* the sum of the code points of the letters and digits of a text
RECURSIVE CodeSum(_)
CodeSum(text) ==
    IF text = <<>> THEN 0
    ELSE (IF \E i \in DOMAIN CodePoints : CodePoints[i] = Head(text) THEN Ord(Head(text)) ELSE 0)
            + CodeSum(Tail(text))

\* hashlib.md5(text.encode()).hexdigest()[:12], as a digest of three hex digits:
\* a function of the text which, like md5, can give two texts the same digest
Md5Hexdigest(text) ==
    <<HexDigits[(CodeSum(text) % 16) + 1], HexDigits[((CodeSum(text) \div 16) % 16) + 1],
      HexDigits[(Len(text) % 16) + 1]>>

\* job_id of normalize_indeed_job
normalize_indeed_job(j) ==
    IF j.url # <<>>
    THEN IF JkMatch(j.url) # <<>> THEN JkMatch(j.url)
         ELSE Md5Hexdigest(j.url \o <<"_">> \o j.title \o <<"_">> \o j.company)
    ELSE Md5Hexdigest(j.title \o <<"_">> \o j.company)

\* the id taken as it is, seen or not
FirstCandidate(base_id, seen_ids, counter) == base_id

\* the while loop of lines 487-491, entered with job_id = base_id and counter = 0
RECURSIVE UnseenId(_, _, _)
UnseenId(base_id, seen_ids, counter) ==
    LET job_id == IF counter = 0 THEN base_id ELSE base_id \o <<"_">> \o DigitsOf(counter)
    IN IF job_id \in seen_ids THEN UnseenId(base_id, seen_ids, counter + 1) ELSE job_id

\* the ids of job_responses for jobs_data[idx:], lines 460-511
RECURSIVE ResponseIds(_, _, _)
ResponseIds(jobs, idx, seen_ids) ==
    IF jobs = <<>> THEN <<>>
    ELSE LET natural_id == normalize_indeed_job(Head(jobs))
             base_id == IF natural_id = <<>> THEN <<"i", "n", "d", "e", "e", "d", "_">> \o DigitsOf(idx) ELSE natural_id
             job_id == UnseenId(base_id, seen_ids, 0)
         IN <<<<"i", "n", "d", "e", "e", "d", "_">> \o job_id>> \o ResponseIds(Tail(jobs), idx + 1, seen_ids \cup {job_id})

\* jobs of the scraper: two with the same jk, one with an upper-case jk, one
\* without jk, and two without URL whose texts have the same digest
IndeedJobs ==
    {[url |-> <<"h", "t", "t", "p", ":", "/", "/", "i", "/", "v", "?", "j", "k", "=", "a", "b", "c", "1">>, title |-> <<"D", "e", "v">>, company |-> <<"A", "c", "m", "e">>],
     [url |-> <<"h", "t", "t", "p", ":", "/", "/", "i", "/", "v", "?", "j", "k", "=", "a", "b", "c", "1", "&", "f", "r", "o", "m", "=", "x">>, title |-> <<"D", "e", "v", " ", "I", "I">>, company |-> <<"A", "c", "m", "e">>],
     [url |-> <<"h", "t", "t", "p", ":", "/", "/", "i", "/", "v", "?", "j", "k", "=", "A", "B", "C", "1">>, title |-> <<"D", "e", "v">>, company |-> <<"A", "c", "m", "e">>],
     [url |-> <<"h", "t", "t", "p", ":", "/", "/", "i", "/", "j", "o", "b", "/", "7">>, title |-> <<"D", "e", "v">>, company |-> <<"A", "c", "m", "e">>],
     [url |-> <<>>, title |-> <<"D", "e", "v">>, company |-> <<"A", "c", "m", "e">>],
     [url |-> <<>>, title |-> <<"A", "c", "m", "e">>, company |-> <<"D", "e", "v">>]}

\* a list of n jobs that repeats the first k of five of them
Repeated(n, k) ==
    LET five == <<[url |-> <<"h", "t", "t", "p", ":", "/", "/", "i", "/", "v", "?", "j", "k", "=", "a", "b", "c", "1">>, title |-> <<"D", "e", "v">>, company |-> <<"A", "c", "m", "e">>],
                  [url |-> <<>>, title |-> <<"D", "e", "v">>, company |-> <<"A", "c", "m", "e">>],
                  [url |-> <<>>, title |-> <<"A", "c", "m", "e">>, company |-> <<"D", "e", "v">>],
                  [url |-> <<"h", "t", "t", "p", ":", "/", "/", "i", "/", "j", "o", "b", "/", "7">>, title |-> <<"D", "e", "v">>, company |-> <<"A", "c", "m", "e">>],
                  [url |-> <<"h", "t", "t", "p", ":", "/", "/", "i", "/", "v", "?", "j", "k", "=", "a", "b", "c", "1", "&", "f", "r", "o", "m", "=", "x">>, title |-> <<"D", "e", "v", " ", "I", "I">>, company |-> <<"A", "c", "m", "e">>]>>
    IN [i \in 1..n |-> five[(i % k) + 1]]

\* every short list of jobs, and lists of 29 to 32 jobs around the cap of 30
InitIndeedIds ==
    /\ DateIdle
    /\ MiddlewareIdle
    /\ PollIdle
    /\ TheirstackIdle
    /\ CoreIdle
    /\ indeed_jobs_data \in UNION {[1..n -> IndeedJobs] : n \in 0..MaxIndeedJobs}
                              \cup {Repeated(n, k) : n \in 29..32, k \in 1..5}
    /\ indeed_response = NoIndeedResponse

\* lines 456-528: the response is built from jobs_data[:30]; 404 without jobs
BuildIndeedResponse ==
    /\ indeed_response = NoIndeedResponse
    /\ LET ids == ResponseIds(FirstN(indeed_jobs_data, 30), 0, {})
       IN indeed_response' = IF Len(ids) = 0
                             THEN [status_code |-> 404, ids |-> <<>>, total |-> 0]
                             ELSE [status_code |-> 200, ids |-> ids, total |-> Len(ids)]
    /\ UNCHANGED <<indeed_jobs_data, poll_vars, theirstack_vars, date_vars, rate_vars,
                   auth_vars, request_id_vars, core_vars>>

NextIndeedIds == BuildIndeedResponse

SpecIndeedIds == InitIndeedIds /\ [][NextIndeedIds]_vars

(***************************************************************************)
(* Properties                                                              *)
(***************************************************************************)
\* equality of two scores held as rationals
SameScore(a, b) == a.num * b.den = b.num * a.den

\* the number of True entries of the list the scorer recorded
MatchedChecks == Cardinality({ i \in DOMAIN result.matches : result.matches[i] = Bool(TRUE) })

\* C1: the score returned is 100 * (matched checks) / (applicable checks), with
\* exactly one boolean recorded per applicable check; it lies within [0, 100]
\* and is 100 when no check is applicable.
ScoreIsMatchedOverApplicable ==
    pc = "return" =>
        /\ ~result.raised
        /\ Len(result.matches) = result.total_checks
        /\ \A i \in DOMAIN result.matches : result.matches[i].t = "bool"
        /\ result.score.den > 0
        /\ result.total_checks > 0 =>
              result.score.num * result.total_checks
                  = 100 * MatchedChecks * result.score.den
        /\ result.total_checks = 0 => SameScore(result.score, [num |-> 100, den |-> 1])
        /\ 0 <= result.score.num
        /\ result.score.num <= 100 * result.score.den

\* six applicable checks of which four matched: the score is 400/6
ScoreFourOfSix ==
    /\ pc = "return"
    /\ result.total_checks = 6
    /\ MatchedChecks = 4
    /\ SameScore(result.score, [num |-> 400, den |-> 6])

\* the jobs scan_jobs has visited so far, in the order the provider returned them
Visited == SubSeq(fetched, 1, Len(fetched) - Len(jobs_data))

\* the outputs of the jobs of js whose score is at least the threshold in force
\* (the requested one, 100 when it is 100 or more), in the order of js
RECURSIVE Survivors(_)
Survivors(js) ==
    IF js = <<>> THEN <<>>
    ELSE LET score == _calculate_job_match_score(input_data, Head(js), now).score
             limit == IF min_match_threshold > 100 THEN 100 ELSE min_match_threshold
         IN (IF score.num >= limit * score.den
             THEN <<JobOutput(input_data, Head(js))>> ELSE <<>>) \o Survivors(Tail(js))

ThresholdMonotone ==
    strict_filter =>
        \A i \in DOMAIN kept :
            kept[i] =>
                \A t1 \in Thresholds :
                    t1 <= min_match_threshold =>
                        _check_job_matches_criteria(input_data, fetched[i],
                                                    EffectiveThreshold(t1), now)

\* a finished strict scan at threshold 120 that kept one job and dropped another
ClampedScanKeptSome ==
    /\ pc = "done"
    /\ strict_filter
    /\ min_match_threshold = 120
    /\ \E i \in DOMAIN kept : kept[i]
    /\ \E i \in DOMAIN kept : ~kept[i]

\* the criteria has a city or a state
HasLocation(c) == c.location_city # <<>> \/ c.location_state # <<>>

\* the place in `matches` of the boolean of the location, country, salary and
\* date checks, when the criteria has the field (title and job type come first)
LocationIndex == Len(<<"job_title", "job_type">>) + 1
CountryIndex == LocationIndex + (IF HasLocation(input_data) THEN 1 ELSE 0)
SalaryIndex == CountryIndex + (IF input_data.country # <<>> THEN 1 ELSE 0)
DateIndex == SalaryIndex + (IF input_data.salary_range # <<>> THEN 1 ELSE 0)

\* the job value is missing, null or empty
Missing(v) == ~Truthy(Get(v, None))

\* C4: with job type Remote, a city/state in the criteria changes neither the
\* number of applicable fields nor the score of the job.
RemoteIgnoresLocation ==
    (pc = "return" /\ input_data.job_type = "Remote") =>
        LET bare == [input_data EXCEPT !.location_city = <<>>, !.location_state = <<>>]
            other == _calculate_job_match_score(bare, job, now)
        IN /\ result.total_checks = other.total_checks
           /\ SameScore(result.score, other.score)

\* C5: for a non-Remote criteria the location matches iff every sub-field the
\* criteria gives equals the job's sub-field, letter case ignored (stated for a
\* job that carries both a city and a state).
LocationMatchesIffGivenEqual ==
    (/\ pc = "return" /\ input_data.job_type # "Remote" /\ HasLocation(input_data)
     /\ ~Missing(job.job_city) /\ ~Missing(job.job_state)) =>
        LET job_city == Lower(OrEmpty(job.job_city).s)
            job_state == Lower(OrEmpty(job.job_state).s)
        IN result.matches[LocationIndex] =
              Bool(/\ input_data.location_city # <<>> =>
                         Lower(input_data.location_city) = job_city
                   /\ input_data.location_state # <<>> =>
                         Lower(input_data.location_state) = job_state)

\* C6: a non-empty industry in the criteria is an applicable field of the score:
\* it adds one to the number of applicable fields.
IndustryIsApplicable ==
    (pc = "return" /\ input_data.industry # <<>>) =>
        LET bare == [input_data EXCEPT !.industry = <<>>]
        IN result.total_checks
              = _calculate_job_match_score(bare, job, now).total_checks + 1

\* the criteria fields that are given, industry aside
GivenFields(c) ==
    {"job_title", "job_type"}
        \cup (IF HasLocation(c) THEN {"location"} ELSE {})
        \cup (IF c.country # <<>> THEN {"country"} ELSE {})
        \cup (IF c.salary_range # <<>> THEN {"salary_range"} ELSE {})
        \cup (IF c.date_posted # <<>> THEN {"date_posted"} ELSE {})

\* the job record j with the values of the keys k1 and k2 replaced by BaseJob's
WithBaseValues(j, k1, k2) == [j EXCEPT ![k1] = BaseJob[k1], ![k2] = BaseJob[k2]]

\* the job record `other` gets the number of applicable fields and the score of
\* the call that returned
SameOutcome(other) ==
    LET r == _calculate_job_match_score(input_data, other, now)
    IN /\ ~r.raised
       /\ r.total_checks = result.total_checks
       /\ SameScore(r.score, result.score)

\* C7: an empty salary range, date posted, country or city/state criterion is
\* not checked: it is no applicable field, and the job scores as the job that
\* differs from it only in the corresponding job values (those of BaseJob), with
\* the same number of applicable fields.
EmptyCriterionNotChecked ==
    pc = "return" =>
        /\ result.total_checks <= Cardinality(GivenFields(input_data))
        /\ input_data.salary_range = <<>> =>
              SameOutcome(WithBaseValues(job, "job_min_salary", "job_max_salary"))
        /\ input_data.date_posted = <<>> =>
              SameOutcome(WithBaseValues(job, "job_posted_at_datetime_utc",
                                         "job_posted_at_datetime_utc"))
        /\ input_data.country = <<>> =>
              SameOutcome(WithBaseValues(job, "job_country", "job_country"))
        /\ ~HasLocation(input_data) =>
              SameOutcome(WithBaseValues(job, "job_city", "job_state"))

\* a criteria without country scored on a job abroad: five applicable fields
EmptyCountryOnForeignJob ==
    /\ pc = "return"
    /\ input_data.country = <<>>
    /\ job.job_country = Str(<<"F", "r", "a", "n", "c", "e">>)
    /\ result.total_checks = 5

\* the posted-at text of the job, parsed as the scorer parses it
PostedAt ==
    fromisoformat(Replace(Get(job.job_posted_at_datetime_utc, Str(<<>>)).s, "Z",
                          <<"+", "0", "0", ":", "0", "0">>))

\* C8: for a job with a parseable ISO-8601 posted-at timestamp that has a time
\* component, with or without a trailing Z or UTC offset, the date field matches
\* iff the age in whole days is <= 1 for a day/today criterion, <= 7 for week,
\* <= 30 for month; any other criterion text matches.
DateMatchesIffWithinBucket ==
    (/\ pc = "return"
     /\ input_data.date_posted # <<>>
     /\ Get(job.job_posted_at_datetime_utc, Str(<<>>)).t = "str"
     /\ Contains(<<"T">>, Get(job.job_posted_at_datetime_utc, Str(<<>>)).s)
     /\ PostedAt.ok) =>
        LET date_lower == Lower(input_data.date_posted)
            days == DeltaDays(now, PostedAt)
            within == IF Contains(<<"d", "a", "y">>, date_lower) THEN days <= 1
                      ELSE IF Contains(<<"w", "e", "e", "k">>, date_lower) THEN days <= 7
                      ELSE IF Contains(<<"m", "o", "n", "t", "h">>, date_lower) THEN days <= 30
                      ELSE TRUE
        IN result.matches[DateIndex] = Bool(within)

\* C9: an applicable field whose job data is missing or empty (country,
\* city/state, salary min/max, posted-at) is scored as a match.
MissingDataScoresAsMatch ==
    pc = "return" =>
        /\ (/\ HasLocation(input_data) /\ input_data.job_type # "Remote"
            /\ input_data.location_city # <<>> => Missing(job.job_city)
            /\ input_data.location_state # <<>> => Missing(job.job_state)) =>
              result.matches[LocationIndex] = Bool(TRUE)
        /\ (input_data.country # <<>> /\ Missing(job.job_country)) =>
              result.matches[CountryIndex] = Bool(TRUE)
        /\ (/\ input_data.salary_range # <<>>
            /\ Missing(job.job_min_salary) \/ Missing(job.job_max_salary)) =>
              result.matches[SalaryIndex] = Bool(TRUE)
        /\ (input_data.date_posted # <<>> /\ Missing(job.job_posted_at_datetime_utc)) =>
              result.matches[DateIndex] = Bool(TRUE)

\* C10: for a job record whose fields may be absent, null or an unparseable
\* string, the scorer returns a score; it does not raise.
ScorerNeverRaises == pc = "return" => ~result.raised

\* C11: with a salary range in the criteria, the salary field matches when the
\* criterion text yields no number or the job lacks a numeric min or max;
\* otherwise it matches iff the ranges overlap, the criterion range being
\* (first number, second number) of the text, or (v, v) for a single number.
SalaryMatchesIffOverlap ==
    (pc = "return" /\ input_data.salary_range # <<>>) =>
        LET criterion == _parse_salary_range(input_data.salary_range)
            job_min == Get(job.job_min_salary, None)
            job_max == Get(job.job_max_salary, None)
        IN result.matches[SalaryIndex] =
              Bool(IF ~criterion.ok \/ job_min.t # "num" \/ job_max.t # "num" THEN TRUE
                   ELSE ~(job_max.n < criterion.lo \/ job_min.n > criterion.hi))

\* C12: the criteria {Software Engineer, Remote, $80,000 - $100,000, US, no
\* city/state/date} scored on the job {Senior Software Engineer, remote, salary
\* 150000..160000, United States} has title, job type and country matching and
\* salary not matching: 4 applicable fields, score 75.
ScenarioScores75 ==
    (pc = "return" /\ input_data = ScenarioCriteria /\ job = ScenarioJob) =>
        /\ ~result.raised
        /\ result.matches = <<Bool(TRUE), Bool(TRUE), Bool(TRUE), Bool(FALSE)>>
        /\ result.total_checks = 4
        /\ SameScore(result.score, [num |-> 75, den |-> 1])

\* the scenario has been scored
ScenarioScored ==
    /\ pc = "return"
    /\ input_data = ScenarioCriteria
    /\ job = ScenarioJob
    /\ result.score.den > 0

\* the whitespace tokens of s: its maximal runs of non-blank characters
Tokens(s) ==
    { SubSeq(s, p[1], p[2]) : p \in
        { p \in (1..Len(s)) \X (1..Len(s)) :
            /\ p[1] <= p[2]
            /\ \A k \in p[1]..p[2] : s[k] # " "
            /\ (p[1] = 1 \/ s[p[1] - 1] = " ")
            /\ (p[2] = Len(s) \/ s[p[2] + 1] = " ") } }

UnparseableDateMatches ==
    (/\ pc = "return"
     /\ input_data.date_posted # <<>>
     /\ Get(job.job_posted_at_datetime_utc, Str(<<>>)).t = "str"
     /\ Get(job.job_posted_at_datetime_utc, Str(<<>>)).s # <<>>
     /\ ~PostedAt.ok) =>
        /\ ~result.raised
        /\ result.matches[DateIndex] = Bool(TRUE)

\* "Full Time" in the date field of a job scored for a search of today's jobs
FullTimeScoredForToday ==
    /\ pc = "return"
    /\ input_data.date_posted = <<"T", "o", "d", "a", "y">>
    /\ job.job_posted_at_datetime_utc = Str(<<"F", "u", "l", "l", " ", "T", "i", "m", "e">>)
    /\ result.matches[DateIndex] = Bool(TRUE)

\* the stored rows a get(service, payload) is about: the same service, and a
\* payload with the same items
RowsFor(rows, service, payload) ==
    {r \in rows : r.service = service /\ Items(r.cache_key[3]) = Items(payload)}

\* this step is a call of JobCache.get
GetStep ==
    /\ cache_ops' = cache_ops + 1
    /\ utcnow' = utcnow
    /\ cache_call'.op = "get"

\* C15: JobCache.get answers a hit only with a stored row whose created_at is not
\* older than now - ttl; when every row for the key is older than that, or there
\* is none, it answers (None, False); and it leaves the stored rows as they were.
ExpiredRowIsMiss ==
    [][GetStep =>
        LET call == cache_call'
            mine == RowsFor(cache_rows, call.service, call.payload)
        IN /\ cache_rows' = cache_rows
           /\ cache_ret'.hit =>
                  \E r \in mine : /\ r.created_at >= utcnow - call.ttl
                                  /\ cache_ret'.data = r.response
           /\ (\A r \in mine : r.created_at < utcnow - call.ttl) => cache_ret' = Miss]_vars

\* a get was answered by the store, which held only a row older than now - ttl
\* for the key, and the answer was a miss
GetFoundExpiredRow ==
    /\ cache_call.op = "get"
    /\ cache_call.ok
    /\ cache_ret = Miss
    /\ RowsFor(cache_rows, cache_call.service, cache_call.payload) # {}
    /\ \A r \in RowsFor(cache_rows, cache_call.service, cache_call.payload) :
           r.created_at < utcnow - cache_call.ttl

\* the latest set call made for the service and the items of the payload
LastSetFor(service, payload) ==
    {s \in last_set : s.service = service /\ s.items = Items(payload)}

\* C16: on an enabled cache whose store has answered every request, a get made
\* within the ttl of the latest set for the same service and a payload with the
\* same items, in whatever order, is a hit with the response of that set, whatever
\* was set for other services and payloads in between; and the table never holds
\* two rows for one service and payload.
GetReturnsLatestSet ==
    /\ [][(GetStep /\ cache_enabled /\ ~store_failed') =>
            \A s \in LastSetFor(cache_call'.service, cache_call'.payload) :
                s.at >= utcnow - cache_call'.ttl =>
                    cache_ret' = [hit |-> TRUE, data |-> s.response]]_vars
    /\ [](\A r, q \in cache_rows :
             (r.service = q.service /\ Items(r.cache_key[3]) = Items(q.cache_key[3]))
                 => r = q)

\* a get was a hit with the response set under the items in another order, after
\* a set for another service or payload had been made as well
GetHitAcrossKeyOrder ==
    /\ cache_call.op = "get"
    /\ cache_ret.hit
    /\ ~store_failed
    /\ Cardinality(last_set) >= 2
    /\ \E r \in RowsFor(cache_rows, cache_call.service, cache_call.payload) :
           /\ r.response = cache_ret.data
           /\ r.cache_key[3] # cache_call.payload

\* the request has been answered with a 2xx status
Answered2xx == ep_pc = "done" /\ http_status \in 200..299

\* the provider was called and every fetch it made succeeded
ProviderSucceeded ==
    \/ endpoint = "jsearch" /\ num_pages > 0 /\ pc = "done" /\ failed_pages = {}
    \/ endpoint \in {"indeed", "linkedin"} /\ ep_pc = "done" /\ cache_call.op = "set"

\* C17: an endpoint whose provider call succeeded and left no job answers with a
\* status that is not 2xx, and every 2xx answer carries at least one job.
EmptyResultIsNot2xx ==
    /\ (ep_pc = "done" /\ ProviderSucceeded /\ http_jobs = <<>>) => ~Answered2xx
    /\ Answered2xx => http_jobs # <<>>

\* the provider was called and every fetch it made failed
ProviderFailed ==
    \/ endpoint = "jsearch" /\ num_pages > 0 /\ failed_pages = 1..num_pages
    \/ endpoint \in {"indeed", "linkedin"} /\ provider_raised

\* C18: a request whose provider fetch failed is answered with 500 or 502, never
\* with a 2xx status.
ProviderFailureIsSurfaced ==
    (ep_pc = "done" /\ ProviderFailed) => http_status \in {500, 502}

\* the text holds a sensitive keyword, in whatever letter case
HasKeyword(text) ==
    \E i \in 1..Len(SENSITIVE_PATTERNS) : Contains(SENSITIVE_PATTERNS[i], Lower(text))

\* the run of characters other than a space that starts at position k of the text
RunAt(text, k) ==
    LET stop == CHOOSE e \in (k - 1)..Len(text) :
                    /\ \A x \in k..e : text[x] # " "
                    /\ e = Len(text) \/ text[e + 1] = " "
    IN SubSeq(text, k, stop)

\* the credential values of a message: what follows a sensitive keyword and "="
CredentialValues(text) ==
    {RunAt(text, k) : k \in {x \in 2..Len(text) :
        /\ text[x - 1] = "="
        /\ \E i \in 1..Len(SENSITIVE_PATTERNS) :
               LET pattern == SENSITIVE_PATTERNS[i]
               IN /\ x - 1 - Len(pattern) >= 1
                  /\ SubSeq(Lower(text), x - 1 - Len(pattern), x - 2) = pattern}}
        \ {<<>>}

\* the text shows a stack trace or the path of a file
HasTraceOrPath(text) ==
    \/ Contains(<<"T", "r", "a", "c", "e", "b", "a", "c", "k">>, text)
    \/ Contains(<<".", "p", "y">>, text)
    \/ Contains(<<"/">>, text)

\* C19: whatever the exception and the environment, the detail handle_exception
\* gives the client holds no sensitive keyword in any letter case, no credential
\* value that followed one in the message, and no stack trace or file path.
DetailIsSanitized ==
    http_exc # NoException =>
        /\ ~HasKeyword(http_exc.detail)
        /\ \A v \in CredentialValues(raised_exc.msg) : ~Contains(v, http_exc.detail)
        /\ ~HasTraceOrPath(http_exc.detail)

\* the jobs of the batch for which the matcher of the f-th field returns true
MatchedJobs(f) ==
    {i \in 1..Len(batch) : FieldMatches(input_data, batch[i], now)[Fields[f]]}

\* the per-job match scores listed in detailed_results
ListedScores ==
    [i \in 1..Len(accuracy.detailed_results) |-> accuracy.detailed_results[i].match_score]

ScorerVerdict(st) == st.matches = <<>> \/ st.matches[1] = Bool(TRUE)

\* the verdicts the evaluator lists for the job
EvaluatorVerdicts == accuracy.detailed_results[1].matches

\* C21: for every criteria and job, each per-field verdict of the evaluator
\* (title, job type, location, country, salary, date) equals the verdict the
\* scorer computes for that field, and the evaluator's score of the job equals
\* the scorer's score.
EvaluatorAgreesWithScorer ==
    (pc = "return" /\ accuracy # NoAccuracy /\ ~result.raised) =>
        /\ EvaluatorVerdicts.job_title = ScorerVerdict(CheckTitle(input_data, job, InitScore))
        /\ EvaluatorVerdicts.job_type = ScorerVerdict(CheckJobType(input_data, job, InitScore))
        /\ EvaluatorVerdicts.location = ScorerVerdict(CheckLocation(input_data, job, InitScore))
        /\ EvaluatorVerdicts.country = ScorerVerdict(CheckCountry(input_data, job, InitScore))
        /\ EvaluatorVerdicts.salary_range = ScorerVerdict(CheckSalary(input_data, job, InitScore))
        /\ EvaluatorVerdicts.date_posted
              = ScorerVerdict(CheckDate(input_data, job, InitScore, now))
        /\ SameScore(accuracy.detailed_results[1].match_score, result.score)

\* request validation accepts or normalises the value as the last 24 hours
MeansLastDay(v) ==
    LET v_lower == Strip(Lower(v))
    IN \/ v_lower \in {<<"2", "4", "h">>, <<"d", "a", "y">>, <<"t", "o", "d", "a", "y">>}
       \/ Contains(<<"d", "a", "y">>, v_lower)
       \/ Contains(<<"2", "4">>, v_lower)

\* C22: every datePosted value that validation accepts or normalises as the
\* last 24 hours is sent to the provider as date_posted=day, and the scorer's
\* date check of a dated job is that the job is at most 1 day old.
LastDaySelectsDayBucket ==
    MeansLastDay(datePosted) =>
        /\ pc \in {"call", "return"} => params_date_posted = <<"d", "a", "y">>
        /\ (pc = "return" /\ Truthy(Get(job.job_posted_at_datetime_utc, None))) =>
              result.matches[Len(result.matches)]
                  = Bool(DeltaDays(now, fromisoformat(job.job_posted_at_datetime_utc.s)) <= 1)

\* the number of allowed calls of the IP with a timestamp in the last `window`
\* seconds
AdmittedWithin(ip, window) ==
    Cardinality({i \in DOMAIN admitted[ip] : admitted[ip][i] > current_time - window})

\* a step that is a call of _check_rate_limit
RateCheckStep == check_ret' # check_ret \/ _request_counts' # _request_counts

\* C23: with rate limiting enabled, the allowed calls of one IP with a timestamp
\* in the last 60 seconds never exceed RATE_LIMIT_PER_MINUTE and those of the
\* last 3600 seconds never exceed RATE_LIMIT_PER_HOUR; a rejected call records
\* nothing and no call changes the counts of another IP.
RateLimitsHold ==
    /\ [](enabled =>
            \A ip \in IPs : /\ AdmittedWithin(ip, 60) <= per_minute
                            /\ AdmittedWithin(ip, 3600) <= per_hour)
    /\ [][(enabled /\ RateCheckStep) =>
            /\ \A ip \in IPs \ {check_ret'.ip} :
                  _request_counts'[ip] = _request_counts[ip]
            /\ ~check_ret'.allowed =>
                  /\ Len(_request_counts'[check_ret'.ip]) <= Len(_request_counts[check_ret'.ip])
                  /\ \A i \in DOMAIN _request_counts'[check_ret'.ip] :
                        \E k \in DOMAIN _request_counts[check_ret'.ip] :
                            _request_counts'[check_ret'.ip][i] = _request_counts[check_ret'.ip][k]
            /\ check_ret'.allowed =>
                  CountSince(_request_counts'[check_ret'.ip], current_time - 3600)
                      = AdmittedWithin(check_ret'.ip, 3600) + 1]_vars

\* a call of an IP that has reached its minute limit was rejected while the
\* other IP has recorded requests
CallRejectedAtMinuteLimit ==
    /\ enabled
    /\ check_ret.ip = "10.0.0.1"
    /\ ~check_ret.allowed
    /\ AdmittedWithin("10.0.0.1", 60) = per_minute
    /\ AdmittedWithin("10.0.0.1", 3600) < per_hour
    /\ _request_counts["10.0.0.2"] # <<>>

\* the requests of the IP to a path outside the exempt list that were handed to
\* the handler in the last 60 seconds
ForwardedLastMinute(ip) ==
    {i \in DOMAIN forwarded :
        /\ forwarded[i].ip = ip
        /\ \A k \in DOMAIN EXEMPT_ENDPOINTS : forwarded[i].path # EXEMPT_ENDPOINTS[k]
        /\ forwarded[i].ts > current_time - 60}

\* C24: dispatch skips the rate-limit check only for /, /health, /docs,
\* /openapi.json and /redoc: a request to another path from an IP that has
\* reached its per-minute limit is answered 429 and not forwarded, so no more
\* than per_minute such requests of one IP reach the handler within a minute.
OnlyExemptPathsSkipTheLimit ==
    enabled =>
        /\ \A ip \in IPs : Cardinality(ForwardedLastMinute(ip)) <= per_minute
        /\ \A i \in DOMAIN forwarded :
              (\A k \in DOMAIN EXEMPT_ENDPOINTS : forwarded[i].path # EXEMPT_ENDPOINTS[k])
                  => admitted[forwarded[i].ip] # <<>>

\* C25: with API_KEY configured, a request to a path that is not exactly a
\* public endpoint reaches the handler only if its API-key header equals the
\* configured key; without a key it is answered 401 and with a wrong key 403,
\* the handler not being called.
OnlyTheKeyPassesAuth ==
    API_KEY # <<>> =>
        \A i \in DOMAIN auth_log :
            auth_log[i].path \notin {<<"/">>, <<"/", "h", "e", "a", "l", "t", "h">>, <<"/", "d", "o", "c", "s">>, <<"/", "o", "p", "e", "n", "a", "p", "i", ".", "j", "s", "o", "n">>, <<"/", "r", "e", "d", "o", "c">>} =>
                /\ auth_log[i].called => auth_log[i].api_key = Str(API_KEY)
                /\ auth_log[i].api_key = Str(API_KEY) =>
                      auth_log[i].called /\ auth_log[i].status_code = 200
                /\ ~Truthy(auth_log[i].api_key) =>
                      ~auth_log[i].called /\ auth_log[i].status_code = 401
                /\ (Truthy(auth_log[i].api_key) /\ auth_log[i].api_key # Str(API_KEY)) =>
                      ~auth_log[i].called /\ auth_log[i].status_code = 403

\* a request without key to a path that extends a public one was answered 401,
\* and one with a key that extends the configured key was answered 403
KeylessAndWrongKeyRefused ==
    /\ API_KEY # <<>>
    /\ Len(auth_log) = 2
    /\ auth_log[1] = [path |-> <<"/", "h", "e", "a", "l", "t", "h", "/">>, api_key |-> None, status_code |-> 401,
                      called |-> FALSE]
    /\ auth_log[2] = [path |-> <<"/", "a", "p", "i", "/", "j", "o", "b", "s", "/", "j", "s", "e", "a", "r", "c", "h">>, api_key |-> Str(<<"s", "3", "c", "r", "e", "t", "1">>),
                      status_code |-> 403, called |-> FALSE]

\* C26: once no request is in flight, whatever the interleaving of the requests
\* handled concurrently, the installed log record factory is the one in place
\* before the first request started, and a record made then carries no request
\* ID of a finished request.
FactoryRestoredWhenIdle ==
    (\A r \in RequestIDs : req_pc[r] # "awaiting") =>
        /\ log_record_factory = OriginalFactory
        /\ RequestIdOfRecord(log_record_factory) = 0

\* C27: the status polling of search_indeed_jobs always terminates: the loop is
\* left as soon as the status is SUCCEEDED, FAILED or ABORTED, TimeoutError is
\* raised once more than INDEED_TIMEOUT seconds have elapsed (also when every
\* status request fails), jobs are returned only after SUCCEEDED, and FAILED and
\* ABORTED raise RuntimeError.
PollingTerminates ==
    /\ <>(poll_pc \in {"returned", "TimeoutError", "RuntimeError", "raised"})
    /\ [](poll_pc = "returned" => apify_status = "SUCCEEDED")
    /\ [](poll_pc = "TimeoutError" => poll_time - start_time > INDEED_TIMEOUT)
    /\ [](poll_pc = "polling" => apify_status \notin {"SUCCEEDED", "FAILED", "ABORTED"})
    /\ [](poll_pc = "RuntimeError" => apify_status \in {"FAILED", "ABORTED"})
    /\ (apify_status \in {"FAILED", "ABORTED"}) ~> (poll_pc = "RuntimeError")
    /\ [][(poll_pc = "polling" /\ poll_time - start_time > INDEED_TIMEOUT)
             => poll_pc' = "TimeoutError"]_vars

\* every status request failed and the polling ended with TimeoutError
TimedOutWithoutAnyStatus ==
    /\ poll_pc = "TimeoutError"
    /\ apify_status = ""
    /\ poll_time - start_time > INDEED_TIMEOUT

\* the page returned no jobs or failed with HTTP 429 or 401
StopsPaging(outcome) ==
    \/ outcome.kind = "empty"
    \/ outcome.kind = "HTTPError" /\ outcome.status_code \in {429, 401}

\* C28: pages 0..num_pages-1 are requested in increasing order; no page is
\* requested after the first one that returned no jobs or failed with HTTP 429
\* or 401; any other error skips that page only, so that without such a page
\* all num_pages pages are requested.
PagingStopsAtEmpty429Or401 ==
    /\ \A i \in DOMAIN ts_requests : ts_requests[i].page = i - 1
    /\ Len(ts_requests) <= ts_num_pages
    /\ \A i \in DOMAIN ts_requests : StopsPaging(ts_requests[i].outcome) => i = Len(ts_requests)
    /\ (ts_pc = "returned" /\ \A i \in DOMAIN ts_requests : ~StopsPaging(ts_requests[i].outcome))
          => Len(ts_requests) = ts_num_pages

\* C29: in every response of the Indeed endpoint the job ids are pairwise
\* distinct, for any list of provider jobs, jobs with identical URL, title and
\* company included; total is the number of jobs, one per provider job up to
\* 30 of them.
IndeedIdsAreDistinct ==
    indeed_response.status_code = 200 =>
        /\ \A i, k \in DOMAIN indeed_response.ids :
              indeed_response.ids[i] = indeed_response.ids[k] => i = k
        /\ indeed_response.total = Len(indeed_response.ids)
        /\ indeed_response.total <= 30
        /\ indeed_response.total
              = (IF Len(indeed_jobs_data) < 30 THEN Len(indeed_jobs_data) ELSE 30)

\* more than 30 jobs, all the same job: 30 ids, the later ones suffixed
ThirtyOfTheSameJob ==
    /\ indeed_response.status_code = 200
    /\ Len(indeed_jobs_data) > 30
    /\ \A i \in DOMAIN indeed_jobs_data : indeed_jobs_data[i] = indeed_jobs_data[1]
    /\ indeed_response.total = 30
    /\ indeed_response.ids[1] = <<"i", "n", "d", "e", "e", "d", "_", "a", "b", "c", "1">>
    /\ indeed_response.ids[30] = <<"i", "n", "d", "e", "e", "d", "_", "a", "b", "c", "1", "_", "2", "9">>

\* the step in which an endpoint makes its cache check
CacheCheckStep == ep_pc = "idle" /\ ep_pc' # "idle"

\* the step in which an endpoint finishes a request it sent to the provider
ProviderAnswerStep == ep_pc = "provider" /\ ep_pc' = "done"

\* what cache.get reported is a hit whose stored response lists at least one job
HitWithJobs(ret) == ret.hit /\ ret.data.jobs # <<>>

\* a request is answered at its cache check exactly when cache.get reported a hit
\* with jobs; that answer is the stored response with status 200, and the step
\* starts no provider call and leaves the cache store as it was; every other cache
\* check sends the request to the provider
CacheCheckDecides ==
    [][CacheCheckStep =>
          /\ cache_call'.op = "get"
          /\ cache_call'.service = endpoint'
          /\ (ep_pc' = "done") <=> HitWithJobs(cache_ret')
          /\ (ep_pc' = "done") =>
                 /\ http_status' = 200
                 /\ http_jobs' = cache_ret'.data.jobs
                 /\ UNCHANGED <<cache_rows, last_set, pc, scan_vars, provider_raised>>
          /\ (ep_pc' # "done") =>
                 /\ ep_pc' = "provider"
                 /\ UNCHANGED <<cache_rows, last_set, http_status, http_jobs>>
                 /\ (endpoint' = "jsearch") => pc' = "fetch"]_vars

\* a provider call that returned ends with cache.set(service, payload, response) for
\* the response the client is given, and a store that is enabled and answers then
\* holds that response under the key of the request
NewResponseStored ==
    [][(ProviderAnswerStep /\ http_status' # 500) =>
          /\ cache_call'.op = "set"
          /\ cache_call'.service = endpoint
          /\ cache_call'.payload = RequestPayload
          /\ (cache_enabled /\ cache_call'.ok) =>
                 \E r \in cache_rows' :
                     /\ r.service = endpoint
                     /\ r.cache_key = _compute_key(endpoint, RequestPayload)
                     /\ r.response = JobSearchResponse(http_jobs')
                     /\ r.created_at = utcnow]_vars

\* a 2xx answer that no cache.set came before is the answer of a cache check: it
\* carries the jobs of the hit, of which there is at least one
CacheAnswerCarriesJobs ==
    (Answered2xx /\ cache_call.op = "get") =>
        /\ cache_ret.hit
        /\ http_jobs = cache_ret.data.jobs
        /\ http_jobs # <<>>

\* C30: an endpoint answers a request from the cache, calling no provider and writing
\* nothing to the cache, exactly when cache.get reports a hit whose stored response
\* lists at least one job; in every other case it queries the provider and hands the
\* response it built to cache.set, so no stored response with an empty jobs list is
\* ever the 2xx answer of a cache check.
CacheAnswersIffHitWithJobs ==
    /\ []CacheAnswerCarriesJobs
    /\ CacheCheckDecides
    /\ NewResponseStored

\* the cache reported a stored response without jobs, the provider was queried
\* instead, and the response it led to, with a job in it, has replaced the stored one
EmptyHitGoesToProvider ==
    /\ ep_pc = "done"
    /\ cache_ret.hit
    /\ cache_ret.data.jobs = <<>>
    /\ cache_call.op = "set"
    /\ cache_call.ok
    /\ http_status = 200
    /\ http_jobs # <<>>
    /\ \E r \in cache_rows :
           /\ r.service = endpoint
           /\ r.response = JobSearchResponse(http_jobs)

====
